---- MODULE Spec2Model ----
(***************************************************************************)
(* A model of the point-cloud core of SingleTreeDB:                        *)
(*   - singletree/ingest/lidar.py  import_campaign_tree_packs              *)
(*   - pointcloud/merge.py         merge_campaign_tree_packs               *)
(* One behaviour is one caller session on one campaign directory: either   *)
(* tile imports (possibly repeated) or one merge.                          *)
(*                                                                         *)
(* Strings that the code inspects (file names, tile ids) are sequences of  *)
(* character codes, so that sorting and suffix tests are computed.         *)
(* Optional values: None is the empty tuple, Some(v) the 1-tuple <<v>>.    *)
(***************************************************************************)
EXTENDS Integers, Sequences, FiniteSets, TLC

VARIABLES
    op,             \* which entry point the caller uses: "import" or "merge"
    cfg,            \* keyword arguments of the call
    input_paths,    \* import: the list of input paths
    srcfiles,       \* the source files on disk: path -> file (absent: not in DOMAIN)
    tiles_exists,   \* whether {root}/{campaign}/tiles exists
    tiles,          \* the files of {root}/{campaign}/tiles: name -> file
    merged,         \* the files of {root}/{campaign}/merged: name -> file
    pc,             \* position of the running call
    index,          \* import: enumerate() index of the current input path
    tile_id,        \* import: tile id of the current input
    reader,         \* the file being read (Some(file) while open, else None)
    pos,            \* number of points of the reader consumed so far
    counts,         \* import: per-role running counts
    bboxes,         \* import: per-role running bbox; merge: the single bbox
    masks,          \* import: the masks of the last chunk (None before the first)
    asset_records,  \* the records built so far by the call
    outcome,        \* None while running, then <<"ok">> or <<error kind>>
    runs,           \* import: number of completed calls in this session
    first_run,      \* import: result of the first completed call (history)
    touched,        \* names created or written by the current tile / merge (history)
    queue,          \* merge: files still to append, in order
    point_count,    \* merge: running total
    merged_path,    \* merge: name of the output inside merged/
    crs_epsg,       \* CRS code read from the header at hand
    open_streams,   \* the readers and writers that are open
    merged_exists,  \* whether {root}/{campaign}/merged exists
    returned,       \* what the call returned: None until it returns, then Some(list)
    tiles_at_call,  \* the files of tiles/ when the running call started (history)
    subchunks,      \* bbox: the sub-chunks the caller folds into the bounding box
    measurement,    \* match: the measurement record the caller passes (a mutable dict)
    trees,          \* match: the caller's list of tree records
    temp_tree       \* match: the temporary tree of the last call (None or Some(record))

vars == <<op, cfg, input_paths, srcfiles, tiles_exists, tiles, merged, pc, index,
          tile_id, reader, pos, counts, bboxes, masks, asset_records, outcome,
          runs, first_run, touched, queue, point_count, merged_path, crs_epsg,
          open_streams,
          merged_exists, returned, tiles_at_call,
          subchunks, measurement, trees, temp_tree>>

\* the variables of the bounding-box reduction and of the measurement matching
other_vars == <<subchunks, measurement, trees, temp_tree>>

(***************************************************************************)
(* Bounds of the model.                                                    *)
(***************************************************************************)
MaxChunk == 2
MaxTileLen == 2
MaxRuns == 2

(***************************************************************************)
(* Generic helpers.                                                        *)
(***************************************************************************)
None == <<>>
Some(v) == <<v>>
IsSome(o) == Len(o) = 1
Get(o) == o[1]

MinOf(a, b) == IF a <= b THEN a ELSE b
MaxOf(a, b) == IF a >= b THEN a ELSE b

RECURSIVE SeqMin(_)
SeqMin(s) == IF Len(s) = 1 THEN s[1] ELSE MinOf(s[1], SeqMin(Tail(s)))

RECURSIVE SeqMax(_)
SeqMax(s) == IF Len(s) = 1 THEN s[1] ELSE MaxOf(s[1], SeqMax(Tail(s)))

\* The function f extended or overwritten at key k.
Put(f, k, v) == [x \in (DOMAIN f) \cup {k} |-> IF x = k THEN v ELSE f[x]]

(***************************************************************************)
(* Strings as sequences of character codes.                                *)
(***************************************************************************)
TreeSuffix == <<95, 116, 114, 101, 101, 95, 112, 97, 99, 107, 46, 108, 97, 122>>           \* "_tree_pack.laz"
GroundSuffix == <<95, 103, 114, 111, 117, 110, 100, 95, 111, 110, 108, 121, 46, 108, 97, 122>> \* "_ground_only.laz"
ResidualSuffix == <<95, 114, 101, 115, 105, 100, 117, 97, 108, 46, 108, 97, 122>>          \* "_residual.laz"

\* str.endswith
EndsWith(s, suf) ==
    /\ Len(s) >= Len(suf)
    /\ SubSeq(s, Len(s) - Len(suf) + 1, Len(s)) = suf

\* str.startswith
StartsWith(s, pre) ==
    /\ Len(s) >= Len(pre)
    /\ SubSeq(s, 1, Len(pre)) = pre

\* str.lower on ASCII
Lower(s) == [i \in 1..Len(s) |-> IF s[i] \in 65..90 THEN s[i] + 32 ELSE s[i]]

\* str.split("_"): the parts between underscores (code 95), empty parts kept
RECURSIVE SplitFrom(_, _, _)
SplitFrom(s, i, cur) ==
    IF i > Len(s) THEN <<cur>>
    ELSE IF s[i] = 95 THEN <<cur>> \o SplitFrom(s, i + 1, <<>>)
    ELSE SplitFrom(s, i + 1, Append(cur, s[i]))

Split(s) == SplitFrom(s, 1, <<>>)

\* f"{index:04d}" for 0 <= index < 10000
Fmt04d(n) == <<48 + ((n \div 1000) % 10), 48 + ((n \div 100) % 10),
               48 + ((n \div 10) % 10), 48 + (n % 10)>>

\* Python's < on str: lexicographic by code point
RECURSIVE LexLess(_, _)
LexLess(a, b) ==
    IF Len(b) = 0 THEN FALSE
    ELSE IF Len(a) = 0 THEN TRUE
    ELSE IF a[1] < b[1] THEN TRUE
    ELSE IF a[1] > b[1] THEN FALSE
    ELSE LexLess(Tail(a), Tail(b))

(***************************************************************************)
(* Points and files.                                                       *)
(***************************************************************************)
Num(n) == [k |-> "num", v |-> n]
NaN == [k |-> "nan", v |-> 0]

Pt(x, y, z, sem, inst) == [x |-> x, y |-> y, z |-> z, sem |-> sem, inst |-> inst]

\* The kinds of point the inputs are built from: a ground point, a tree point
\* with a valid instance, one with a negative instance, one with a NaN instance.
PointPool ==
    { Pt(0, 0, 0, 1, Num(1)),
      Pt(1, 2, 0, 2, Num(1)),
      Pt(2, 1, 1, 3, Num(-1)),
      Pt(0, 2, 2, 2, NaN) }

\* A file: its header (CRS code, whether the instance dimension is declared)
\* and its point records.
File(epsg, has_inst, points) ==
    [epsg |-> epsg, has_inst |-> has_inst, has_sem |-> TRUE, points |-> points]

\* a file whose schema does not declare the semantic dimension
NoSemFile(epsg, has_inst, points) == [File(epsg, has_inst, points) EXCEPT !.has_sem = FALSE]


\* a writer opened in append mode: an existing file keeps its points
OpenForAppend(dir, name, header) ==
    IF name \in DOMAIN dir
    THEN dir
    ELSE Put(dir, name, [header EXCEPT !.points = <<>>])

\* laspy.open(path, mode="w", header=h): creates the file, or truncates an
\* existing one, with a copy of the donor header and no point yet.
OpenForWrite(dir, name, header) ==
    Put(dir, name, [header EXCEPT !.points = <<>>])

\* a writer that puts each batch in front of what the file already holds
WritePointsInFront(dir, name, pts) ==
    Put(dir, name, [dir[name] EXCEPT !.points = pts \o @])

\* writer.write_points(pts): the records are appended unchanged.
WritePoints(dir, name, pts) ==
    Put(dir, name, [dir[name] EXCEPT !.points = @ \o pts])

\* _NullWriter.write_points: nothing is written anywhere.
NullWritePoints(dir, name, pts) == dir

\* a residual writer that opens its file whatever include_residual says
OpenResidualWriterAlways(dir, name, header, c) == OpenForWrite(dir, name, header)

\* the residual writer of a tile: a laspy writer on residual_path if
\* include_residual, else a _NullWriter, which opens no file
OpenResidualWriter(dir, name, header, c) ==
    IF c.include_residual THEN OpenForWrite(dir, name, header) ELSE dir

\* residual_writer.write_points(pts)
ResidualWritePoints(dir, name, pts, c) ==
    IF c.include_residual THEN WritePoints(dir, name, pts) ELSE NullWritePoints(dir, name, pts)

\* streams that nothing closes when the block is left
CloseNone(streams) == streams

\* leaving the with blocks, normally or by an exception: __exit__ closes every
\* stream the blocks had opened
CloseAll(streams) == {}

\* os.path.getsize, in point records (None when the file does not exist)
file_size(dir, name) ==
    IF name \in DOMAIN dir THEN Some(Len(dir[name].points)) ELSE None

(***************************************************************************)
(* Bounding boxes: None, or <<min, max>> with min and max triples.         *)
(***************************************************************************)
Xs(points) == [i \in 1..Len(points) |-> points[i].x]
Ys(points) == [i \in 1..Len(points) |-> points[i].y]
Zs(points) == [i \in 1..Len(points) |-> points[i].z]

\* a bounding box that each chunk replaces by its own
update_bbox_replace(current_bbox, points) ==
    << <<SeqMin(Xs(points)), SeqMin(Ys(points)), SeqMin(Zs(points))>>,
       <<SeqMax(Xs(points)), SeqMax(Ys(points)), SeqMax(Zs(points))>> >>

\* a bounding box that is set by the first chunk and never grown afterwards
update_bbox_first_only(current_bbox, points) ==
    IF current_bbox = None
    THEN << <<SeqMin(Xs(points)), SeqMin(Ys(points)), SeqMin(Zs(points))>>,
            <<SeqMax(Xs(points)), SeqMax(Ys(points)), SeqMax(Zs(points))>> >>
    ELSE current_bbox

\* lidar.py _update_bbox
update_bbox(current_bbox, points) ==
    LET chunk_min == <<SeqMin(Xs(points)), SeqMin(Ys(points)), SeqMin(Zs(points))>>
        chunk_max == <<SeqMax(Xs(points)), SeqMax(Ys(points)), SeqMax(Zs(points))>>
    IN  IF current_bbox = None
        THEN <<chunk_min, chunk_max>>
        ELSE << <<MinOf(current_bbox[1][1], chunk_min[1]),
                  MinOf(current_bbox[1][2], chunk_min[2]),
                  MinOf(current_bbox[1][3], chunk_min[3])>>,
                <<MaxOf(current_bbox[2][1], chunk_max[1]),
                  MaxOf(current_bbox[2][2], chunk_max[2]),
                  MaxOf(current_bbox[2][3], chunk_max[3])>> >>

(***************************************************************************)
(* Classification of one chunk (lidar.py, the body of the chunk loop).     *)
(* A mask is a sequence of booleans, one per point of the chunk.           *)
(***************************************************************************)
\* np.isin(sem, codes)
IsIn(chunk, codes) == [i \in 1..Len(chunk) |-> chunk[i].sem \in codes]

\* (inst < 0) | np.isnan(inst): instance 0 taken for a valid instance
InvalidInstanceStrict(v) == (v.k = "num" /\ v.v < 0) \/ (v.k = "nan")

\* (inst <= 0) | np.isnan(inst); a comparison with NaN is False
InvalidInstance(v) == (v.k = "num" /\ v.v <= 0) \/ (v.k = "nan")

MaskAny(mask) == \E i \in 1..Len(mask) : mask[i]

RECURSIVE MaskSum(_)
MaskSum(mask) ==
    IF Len(mask) = 0 THEN 0
    ELSE (IF mask[1] THEN 1 ELSE 0) + MaskSum(Tail(mask))

\* points[mask]: the selected records, in their order in the chunk
RECURSIVE Select(_, _)
Select(points, mask) ==
    IF Len(points) = 0 THEN <<>>
    ELSE (IF mask[1] THEN <<points[1]>> ELSE <<>>)
         \o Select(Tail(points), Tail(mask))

mask_ground(chunk, c) == IsIn(chunk, c.ground_codes)

\* None when residual extraction is off
mask_residual(chunk, has_inst, c) ==
    IF c.include_residual
    THEN IF ~has_inst
         THEN Some(IsIn(chunk, c.tree_codes))
         ELSE Some([i \in 1..Len(chunk) |->
                      IsIn(chunk, c.tree_codes)[i] /\ InvalidInstance(chunk[i].inst)])
    ELSE None

\* a tree mask that drops invalid instances even when residual extraction is off
mask_tree_always_filtered(chunk, has_inst, c) ==
    [i \in 1..Len(chunk) |->
        IsIn(chunk, c.tree_codes)[i] /\ has_inst /\ ~InvalidInstance(chunk[i].inst)]

mask_tree(chunk, has_inst, c) ==
    IF c.include_residual
    THEN [i \in 1..Len(chunk) |->
            IsIn(chunk, c.tree_codes)[i] /\ ~Get(mask_residual(chunk, has_inst, c))[i]]
    ELSE IsIn(chunk, c.tree_codes)

(***************************************************************************)
(* Tile identifiers and destination names.                                 *)
(* A path is [dir, stem]: os.path.basename drops dir, os.path.splitext     *)
(* drops the extension, which leaves stem.                                 *)
(***************************************************************************)
derive_tile_id(path, idx) ==
    LET stem == path.stem
        parts == Split(Lower(stem))
    IN  IF \E i \in 1..Len(parts) : StartsWith(parts[i], <<116, 105, 108, 101>>)
        THEN stem
        ELSE <<116, 105, 108, 101, 95>> \o Fmt04d(idx)

tree_pack_path(tid) == tid \o TreeSuffix
ground_only_path(tid) == tid \o GroundSuffix
residual_path(tid) == tid \o ResidualSuffix

campaign_uid == <<99, 97, 109, 112>>   \* "camp"

\* the three dictionaries appended for one tile (two when residual is off)
TileAssetRecords(tid, c, dir, cnt, epsg) ==
    LET rec(token, role, name, n) ==
            [asset_uid |-> <<"pc", campaign_uid, tid, token>>,
             campaign_uid |-> campaign_uid,
             tree_uid |-> None,
             scope |-> "tile",
             pc_role |-> role,
             asset_type |-> "pointcloud",
             format |-> "LAZ",
             uri |-> <<campaign_uid, "tiles", name>>,
             crs_epsg |-> epsg,
             point_count |-> n,
             bytes |-> file_size(dir, name),
             hash |-> None,
             created_at |-> None,
             notes |-> None]
    IN  <<rec("tree_pack", "tree_pack", tree_pack_path(tid), cnt.tree),
          rec("ground_only", "ground_only", ground_only_path(tid), cnt.ground)>>
        \o (IF c.include_residual
            THEN <<rec("residual", "background_residual", residual_path(tid), cnt.residual)>>
            ELSE <<>>)


(***************************************************************************)
(* Inputs of a tile import.                                                *)
(***************************************************************************)
PathA == [dir |-> "raw", stem |-> <<116, 105, 108, 101, 95, 48, 49>>]   \* raw/tile_01.laz
PathB == [dir |-> "raw", stem |-> <<112, 108, 111, 116>>]               \* raw/plot.laz
PathM == [dir |-> "raw", stem |-> <<103, 111, 110, 101>>]               \* raw/gone.laz, not on disk
PathS == [dir |-> "raw", stem |-> <<98, 97, 114, 101>>]                 \* raw/bare.laz, no semantic dimension
PathT == [dir |-> "raw", stem |-> <<116, 105, 108, 101, 95, 48, 48, 48, 49>>]  \* raw/tile_0001.laz

InputLists ==
    { <<PathA>>, <<PathA, PathB>>, <<PathB, PathA>>, <<PathA, PathM>>, <<PathM, PathA>> }

\* the lists that name raw/bare.laz
BareLists == { <<PathS>>, <<PathB, PathS>>, <<PathS, PathB>> }

\* a list of two distinct paths: raw/tile_0001.laz first, then a file whose
\* stem has no tile token, at index 1
NumberedLists == { <<PathT, PathB>> }

GroundCodeSets == { {1}, {1, 2} }
TreeCodeSets == { {2, 3}, {3} }

\* every point sequence of at most n points over the pool
SeqsUpTo(S, n) == UNION { [1..k -> S] : k \in 0..n }

\* a 10-point tile: 4 points of class 1, 6 of classes 2 and 3, one of which
\* has instance 0
ScenarioATile ==
    << Pt(0, 0, 0, 1, Num(1)), Pt(1, 2, 0, 2, Num(1)), Pt(2, 2, 1, 3, Num(2)),
       Pt(0, 1, 0, 1, Num(1)), Pt(2, 1, 1, 2, Num(0)), Pt(1, 0, 2, 3, Num(2)),
       Pt(1, 1, 0, 1, Num(3)), Pt(0, 2, 1, 2, Num(1)), Pt(2, 0, 2, 2, Num(4)),
       Pt(2, 2, 0, 1, Num(0)) >>

TilePool == SeqsUpTo(PointPool, MaxTileLen) \cup {ScenarioATile}

\* the content of raw/plot.laz, a file that declares no instance dimension
PlotTile ==
    << Pt(1, 2, 0, 2, Num(1)), Pt(0, 0, 1, 1, Num(1)), Pt(2, 0, 1, 0, Num(1)),
       Pt(1, 1, 2, 3, Num(2)) >>

\* the content of raw/tile_0001.laz
NumberedTile == << Pt(0, 0, 0, 1, Num(1)), Pt(2, 2, 2, 3, Num(1)) >>

\* the contents of raw/bare.laz: zero to MaxTileLen points (the model keeps
\* a sem field in the record, the schema of the file does not declare it)
BareTiles == UNION { [1..k -> {Pt(1, 1, 1, 0, Num(1))}] : k \in 0..MaxTileLen }

NoCounts == [tree |-> 0, ground |-> 0, residual |-> 0]
NoBboxes == [tree |-> None, ground |-> None, residual |-> None]

InitImport ==
    /\ op = "import"
    /\ \E gc \in GroundCodeSets, tc \in TreeCodeSets, ir \in BOOLEAN, cs \in 1..MaxChunk :
         cfg = [ground_codes |-> gc, tree_codes |-> tc,
                include_residual |-> ir, chunk_size |-> cs]
    /\ \/ /\ input_paths \in InputLists
          /\ \E t \in TilePool :
               srcfiles = (PathA :> File(Some(32633), TRUE, t))
                          @@ (PathB :> File(None, FALSE, PlotTile))
       \/ /\ input_paths \in BareLists
          /\ \E t \in BareTiles :
               srcfiles = (PathS :> NoSemFile(Some(32633), TRUE, t))
                          @@ (PathB :> File(None, FALSE, PlotTile))
       \/ /\ input_paths \in NumberedLists
          /\ srcfiles = (PathT :> File(Some(32633), TRUE, NumberedTile))
                        @@ (PathB :> File(None, FALSE, PlotTile))
    /\ tiles_exists = FALSE
    /\ tiles = <<>>
    /\ merged = <<>>
    /\ pc = "idle"
    /\ index = 0
    /\ tile_id = <<>>
    /\ reader = None
    /\ pos = 0
    /\ counts = NoCounts
    /\ bboxes = NoBboxes
    /\ masks = None
    /\ asset_records = <<>>
    /\ outcome = None
    /\ runs = 0
    /\ first_run = None
    /\ touched = {}
    /\ queue = <<>>
    /\ point_count = 0
    /\ merged_path = <<>>
    /\ crs_epsg = None
    /\ open_streams = {}
    /\ merged_exists = FALSE
    /\ returned = None
    /\ tiles_at_call = tiles
    /\ subchunks = <<>>
    /\ measurement = None
    /\ trees = <<>>
    /\ temp_tree = None

(***************************************************************************)
(* import_campaign_tree_packs                                              *)
(***************************************************************************)
\* lines 142-148: the call starts; os.makedirs(campaign_dir, exist_ok=True)
StartImport ==
    /\ op = "import" /\ pc = "idle"
    /\ tiles_exists' = TRUE
    /\ asset_records' = <<>>
    /\ index' = 0
    /\ outcome' = None
    /\ returned' = None
    /\ tiles_at_call' = tiles
    /\ pc' = "loop"
    /\ UNCHANGED <<op, cfg, input_paths, srcfiles, tiles, merged, tile_id, reader, pos,
                   counts, bboxes, masks, runs, first_run, touched, queue,
                   point_count, merged_path, crs_epsg,
                   open_streams, merged_exists, other_vars>>

\* a variant that hands the records of the tiles done so far to the caller
\* when an input is missing
MissingInputReturnsPartial ==
    /\ op = "import" /\ pc = "loop"
    /\ index < Len(input_paths)
    /\ input_paths[index + 1] \notin DOMAIN srcfiles
    /\ outcome' = <<"FileNotFoundError">>
    /\ returned' = Some(asset_records)
    /\ pc' = "failed"
    /\ UNCHANGED <<op, cfg, input_paths, srcfiles, tiles_exists, tiles, merged, index,
                   tile_id, reader, pos, counts, bboxes, masks, asset_records, runs,
                   first_run, touched, queue, point_count, merged_path, crs_epsg,
                   open_streams, merged_exists, tiles_at_call, other_vars>>

\* lines 150-151: the next input path is not a file
MissingInput ==
    /\ op = "import" /\ pc = "loop"
    /\ index < Len(input_paths)
    /\ input_paths[index + 1] \notin DOMAIN srcfiles
    /\ outcome' = <<"FileNotFoundError">>
    /\ pc' = "failed"
    /\ UNCHANGED <<op, cfg, input_paths, srcfiles, tiles_exists, tiles, merged, index,
                   tile_id, reader, pos, counts, bboxes, masks, asset_records, runs,
                   first_run, touched, queue, point_count, merged_path, crs_epsg,
                   open_streams,
                   merged_exists, returned, tiles_at_call, other_vars>>

\* lines 152-179: derive the tile id, open the reader and the writers
OpenTile ==
    /\ op = "import" /\ pc = "loop"
    /\ index < Len(input_paths)
    /\ input_paths[index + 1] \in DOMAIN srcfiles
    /\ LET src == srcfiles[input_paths[index + 1]]
           tid == derive_tile_id(input_paths[index + 1], index)
           t1 == OpenForWrite(tiles, tree_pack_path(tid), src)
           t2 == OpenForWrite(t1, ground_only_path(tid), src)
           t3 == OpenResidualWriter(t2, residual_path(tid), src, cfg)
       IN  /\ tile_id' = tid
           /\ reader' = Some(src)
           /\ tiles' = t3
           /\ touched' = {tree_pack_path(tid), ground_only_path(tid)}
                         \cup (IF cfg.include_residual THEN {residual_path(tid)} ELSE {})
           /\ open_streams' = {<<"r", input_paths[index + 1]>>,
                               <<"w", tree_pack_path(tid)>>, <<"w", ground_only_path(tid)>>}
                              \cup (IF cfg.include_residual
                                    THEN {<<"w", residual_path(tid)>>}
                                    ELSE {})
    /\ pos' = 0
    /\ counts' = NoCounts
    /\ bboxes' = NoBboxes
    /\ masks' = None
    /\ pc' = "chunks"
    /\ UNCHANGED <<op, cfg, input_paths, srcfiles, tiles_exists, merged, index,
                   asset_records, outcome, runs, first_run, queue, point_count,
                   merged_path, crs_epsg,
                   merged_exists, returned, tiles_at_call, other_vars>>

\* reader.chunk_iterator(chunk_size): the next chunk_size points, fewer at the end
NextChunk(file, at, size) ==
    SubSeq(file.points, at + 1, MinOf(at + size, Len(file.points)))

\* lines 181-217: one iteration of the chunk loop
ProcessChunk ==
    /\ op = "import" /\ pc = "chunks"
    /\ pos < Len(Get(reader).points)
    /\ Get(reader).has_sem
    /\ LET points == NextChunk(Get(reader), pos, cfg.chunk_size)
           has_inst == Get(reader).has_inst
           mr == mask_residual(points, has_inst, cfg)
           mt == mask_tree(points, has_inst, cfg)
           mg == mask_ground(points, cfg)
           wr == cfg.include_residual /\ mr # None /\ MaskAny(Get(mr))
           t1 == IF MaskAny(mt)
                 THEN WritePoints(tiles, tree_pack_path(tile_id), Select(points, mt))
                 ELSE tiles
           t2 == IF MaskAny(mg)
                 THEN WritePoints(t1, ground_only_path(tile_id), Select(points, mg))
                 ELSE t1
           t3 == IF wr
                 THEN ResidualWritePoints(t2, residual_path(tile_id),
                                          Select(points, Get(mr)), cfg)
                 ELSE t2
       IN  /\ masks' = Some([tree |-> mt, ground |-> mg, residual |-> mr])
           /\ tiles' = t3
           /\ counts' = [tree |-> counts.tree + (IF MaskAny(mt) THEN MaskSum(mt) ELSE 0),
                         ground |-> counts.ground + (IF MaskAny(mg) THEN MaskSum(mg) ELSE 0),
                         residual |-> counts.residual + (IF wr THEN MaskSum(Get(mr)) ELSE 0)]
           /\ bboxes' = [tree |-> IF MaskAny(mt)
                                  THEN update_bbox(bboxes.tree, Select(points, mt))
                                  ELSE bboxes.tree,
                         ground |-> IF MaskAny(mg)
                                    THEN update_bbox(bboxes.ground, Select(points, mg))
                                    ELSE bboxes.ground,
                         residual |-> IF wr
                                      THEN update_bbox(bboxes.residual, Select(points, Get(mr)))
                                      ELSE bboxes.residual]
           /\ pos' = pos + Len(points)
    /\ UNCHANGED <<op, cfg, input_paths, srcfiles, tiles_exists, merged, pc, index,
                   tile_id, reader, asset_records, outcome, runs, first_run, touched,
                   queue, point_count, merged_path, crs_epsg,
                   open_streams,
                   merged_exists, returned, tiles_at_call, other_vars>>

\* line 183: sem = points[semantic_dim] on a chunk of a file whose schema has
\* no such dimension: the lookup raises inside laspy, the with blocks close
\* the reader and the writers, and the exception leaves the call
SemanticMissing ==
    /\ op = "import" /\ pc = "chunks"
    /\ pos < Len(Get(reader).points)
    /\ ~Get(reader).has_sem
    /\ outcome' = <<"LookupError">>
    /\ reader' = None
    /\ open_streams' = CloseAll(open_streams)
    /\ pc' = "failed"
    /\ UNCHANGED <<op, cfg, input_paths, srcfiles, tiles_exists, tiles, merged, index,
                   tile_id, pos, counts, bboxes, masks, asset_records, runs, first_run,
                   touched, queue, point_count, merged_path, crs_epsg,
                   merged_exists, returned, tiles_at_call, other_vars>>

\* lines 160-171: laspy.open raises for the reader or for one of the writers.
\* The opens run in order, so the writers opened before the failing one have
\* created their files; the with blocks close what was opened.
OpenTileFails ==
    /\ op = "import" /\ pc = "loop"
    /\ index < Len(input_paths)
    /\ input_paths[index + 1] \in DOMAIN srcfiles
    /\ LET src == srcfiles[input_paths[index + 1]]
           tid == derive_tile_id(input_paths[index + 1], index)
           r == {<<"r", input_paths[index + 1]>>}
           t1 == OpenForWrite(tiles, tree_pack_path(tid), src)
           t2 == OpenForWrite(t1, ground_only_path(tid), src)
       IN  /\ tile_id' = tid
           /\ \E stage \in {"reader", "tree", "ground", "residual"} :
                /\ stage = "residual" => cfg.include_residual
                /\ tiles' = CASE stage \in {"reader", "tree"} -> tiles
                              [] stage = "ground" -> t1
                              [] stage = "residual" -> t2
                /\ open_streams' =
                     CloseAll(CASE stage = "reader" -> {}
                                [] stage = "tree" -> r
                                [] stage = "ground" -> r \cup {<<"w", tree_pack_path(tid)>>}
                                [] stage = "residual" ->
                                     r \cup {<<"w", tree_pack_path(tid)>>,
                                             <<"w", ground_only_path(tid)>>})
    /\ outcome' = <<"IOError">>
    /\ pc' = "failed"
    /\ UNCHANGED <<op, cfg, input_paths, srcfiles, tiles_exists, merged, index, reader,
                   pos, counts, bboxes, masks, asset_records, runs, first_run, touched,
                   queue, point_count, merged_path, crs_epsg,
                   merged_exists, returned, tiles_at_call, other_vars>>

\* lines 181-217: reading, classifying or writing the next chunk raises.  The
\* writes of a chunk run in the order tree, ground, residual, so the ones
\* before the failing step have been made; the with blocks close the streams.
ChunkFails ==
    /\ op = "import" /\ pc = "chunks"
    /\ pos < Len(Get(reader).points)
    /\ Get(reader).has_sem
    /\ LET points == NextChunk(Get(reader), pos, cfg.chunk_size)
           has_inst == Get(reader).has_inst
           mr == mask_residual(points, has_inst, cfg)
           mt == mask_tree(points, has_inst, cfg)
           mg == mask_ground(points, cfg)
           wr == cfg.include_residual /\ mr # None /\ MaskAny(Get(mr))
           t1 == IF MaskAny(mt)
                 THEN WritePoints(tiles, tree_pack_path(tile_id), Select(points, mt))
                 ELSE tiles
           t2 == IF MaskAny(mg)
                 THEN WritePoints(t1, ground_only_path(tile_id), Select(points, mg))
                 ELSE t1
       IN  \E stage \in {"read", "classify", "write_tree", "write_ground", "write_residual"} :
             /\ stage = "write_tree" => MaskAny(mt)
             /\ stage = "write_ground" => MaskAny(mg)
             /\ stage = "write_residual" => wr
             /\ tiles' = CASE stage \in {"read", "classify", "write_tree"} -> tiles
                           [] stage = "write_ground" -> t1
                           [] stage = "write_residual" -> t2
    /\ outcome' = <<"IOError">>
    /\ reader' = None
    /\ open_streams' = CloseAll(open_streams)
    /\ pc' = "failed"
    /\ UNCHANGED <<op, cfg, input_paths, srcfiles, tiles_exists, merged, index, tile_id,
                   pos, counts, bboxes, masks, asset_records, runs, first_run, touched,
                   queue, point_count, merged_path, crs_epsg,
                   merged_exists, returned, tiles_at_call, other_vars>>

\* lines 219-272: the source is exhausted; the streams close and the asset
\* records of the tile are appended
FinishTile ==
    /\ op = "import" /\ pc = "chunks"
    /\ pos = Len(Get(reader).points)
    /\ crs_epsg' = Get(reader).epsg
    /\ asset_records' = asset_records
                        \o TileAssetRecords(tile_id, cfg, tiles, counts, Get(reader).epsg)
    /\ reader' = None
    /\ open_streams' = CloseAll(open_streams)
    /\ index' = index + 1
    /\ pc' = "loop"
    /\ UNCHANGED <<op, cfg, input_paths, srcfiles, tiles_exists, tiles, merged, tile_id,
                   pos, counts, bboxes, masks, outcome, runs, first_run, touched, queue,
                   point_count, merged_path,
                   merged_exists, returned, tiles_at_call, other_vars>>

\* line 274: return asset_records (an exception returns nothing)
ReturnImport ==
    /\ op = "import" /\ pc = "loop"
    /\ index = Len(input_paths)
    /\ outcome' = <<"ok">>
    /\ pc' = "done"
    /\ runs' = runs + 1
    /\ first_run' = IF runs = 0
                    THEN Some([tiles |-> tiles, records |-> asset_records])
                    ELSE first_run
    /\ returned' = Some(asset_records)
    /\ UNCHANGED <<op, cfg, input_paths, srcfiles, tiles_exists, tiles, merged, index,
                   tile_id, reader, pos, counts, bboxes, masks, asset_records, touched,
                   queue, point_count, merged_path, crs_epsg,
                   open_streams, merged_exists, tiles_at_call, other_vars>>

\* the caller runs the same import again on the same output root
CallAgain ==
    /\ op = "import" /\ pc = "done"
    /\ runs < MaxRuns
    /\ pc' = "idle"
    /\ UNCHANGED <<op, cfg, input_paths, srcfiles, tiles_exists, tiles, merged, index,
                   tile_id, reader, pos, counts, bboxes, masks, asset_records, outcome,
                   runs, first_run, touched, queue, point_count, merged_path, crs_epsg,
                   open_streams,
                   merged_exists, returned, tiles_at_call, other_vars>>

ImportNext ==
    \/ StartImport
    \/ MissingInput
    \/ OpenTile
    \/ OpenTileFails
    \/ ProcessChunk
    \/ SemanticMissing
    \/ ChunkFails
    \/ FinishTile
    \/ ReturnImport
    \/ CallAgain

(***************************************************************************)
(* Inputs of a merge: what the tiles directory holds.                      *)
(***************************************************************************)
NameTreeA == <<97>> \o TreeSuffix               \* a_tree_pack.laz
NameTreeAB == <<97, 95, 98>> \o TreeSuffix      \* a_b_tree_pack.laz
NameGroundA == <<97>> \o GroundSuffix           \* a_ground_only.laz
NameGroundB == <<66>> \o GroundSuffix           \* B_ground_only.laz
NameResidualA == <<97>> \o ResidualSuffix       \* a_residual.laz
NameNotes == <<110, 111, 116, 101, 115, 46, 116, 120, 116>>   \* notes.txt
NameCustom == <<99, 117, 115, 116, 111, 109, 46, 108, 97, 122>>   \* custom.laz

TreeAContents ==
    { <<>>,
      << Pt(1, 1, 1, 2, Num(1)), Pt(0, 2, 1, 2, Num(1)), Pt(1, 0, 2, 3, Num(2)) >>,
      << Pt(2, 2, 0, 2, Num(1)), Pt(1, 1, 1, 2, Num(1)), Pt(0, 1, 2, 3, Num(2)),
         Pt(1, 2, 1, 3, Num(2)) >> }

TreeABContents ==
    { <<>>,
      << Pt(3, 1, 0, 2, Num(5)), Pt(2, 3, 1, 3, Num(5)), Pt(3, 3, 3, 3, Num(6)) >>,
      << Pt(3, 0, 1, 2, Num(5)), Pt(2, 0, 0, 2, Num(5)), Pt(3, 2, 2, 3, Num(6)),
         Pt(2, 1, 3, 3, Num(6)) >> }

GroundAPoints == << Pt(0, 0, 0, 1, Num(0)), Pt(4, 1, 0, 1, Num(0)) >>
GroundBPoints == << Pt(1, 4, 0, 1, Num(0)) >>
ResidualAPoints == << Pt(1, 1, 4, 2, Num(0)), Pt(0, 3, 1, 3, NaN) >>

\* the directory entry name -> file, or no entry
Entry(name, present, file) == IF present THEN name :> file ELSE <<>>

TileDirs ==
    { Entry(NameTreeA, ta # None, File(None, TRUE, IF ta # None THEN Get(ta) ELSE <<>>))
      @@ Entry(NameTreeAB, tb # None, File(Some(25833), TRUE, IF tb # None THEN Get(tb) ELSE <<>>))
      @@ Entry(NameGroundA, ga, File(Some(32633), TRUE, GroundAPoints))
      @@ Entry(NameGroundB, gb, File(None, TRUE, GroundBPoints))
      @@ Entry(NameResidualA, ra, File(Some(32633), TRUE, ResidualAPoints))
      @@ Entry(NameNotes, nt, File(None, FALSE, <<>>)) :
        ta \in {None} \cup {Some(c) : c \in TreeAContents},
        tb \in {None} \cup {Some(c) : c \in TreeABContents},
        ga \in BOOLEAN, gb \in BOOLEAN, ra \in BOOLEAN, nt \in BOOLEAN }

InitMerge ==
    /\ op = "merge"
    /\ \E ig \in BOOLEAN, ir \in BOOLEAN, cs \in 1..MaxChunk,
          fn \in {None, Some(NameCustom)} :
         cfg = [include_ground |-> ig, include_residual |-> ir,
                chunk_size |-> cs, out_filename |-> fn]
    /\ \/ tiles_exists = TRUE /\ tiles \in TileDirs
       \/ tiles_exists = FALSE /\ tiles = <<>>
    /\ input_paths = <<>>
    /\ srcfiles = <<>>
    /\ merged = <<>>
    /\ pc = "idle"
    /\ index = 0
    /\ tile_id = <<>>
    /\ reader = None
    /\ pos = 0
    /\ counts = NoCounts
    /\ bboxes = None
    /\ masks = None
    /\ asset_records = <<>>
    /\ outcome = None
    /\ runs = 0
    /\ first_run = None
    /\ touched = {}
    /\ queue = <<>>
    /\ point_count = 0
    /\ merged_path = <<>>
    /\ crs_epsg = None
    /\ open_streams = {}
    /\ merged_exists = FALSE
    /\ returned = None
    /\ tiles_at_call = tiles
    /\ subchunks = <<>>
    /\ measurement = None
    /\ trees = <<>>
    /\ temp_tree = None

(***************************************************************************)
(* merge_campaign_tree_packs                                               *)
(***************************************************************************)
\* a listing left in descending order, as os.listdir may return it
RECURSIVE SortedDescending(_)
SortedDescending(S) ==
    IF S = {} THEN <<>>
    ELSE LET m == CHOOSE x \in S : \A y \in S : x = y \/ LexLess(y, x)
         IN  <<m>> \o SortedDescending(S \ {m})

\* sorted(names): ascending in Python's string order
RECURSIVE Sorted(_)
Sorted(S) ==
    IF S = {} THEN <<>>
    ELSE LET m == CHOOSE x \in S : \A y \in S : x = y \/ LexLess(x, y)
         IN  <<m>> \o Sorted(S \ {m})

\* a test that takes every .laz file for a tree pack
IsTreeNameAnyLaz(n) == EndsWith(n, <<46, 108, 97, 122>>)

IsTreeName(n) == EndsWith(n, TreeSuffix)
IsGroundName(n, c) == ~IsTreeName(n) /\ c.include_ground /\ EndsWith(n, GroundSuffix)
IsResidualName(n, c) ==
    /\ ~IsTreeName(n)
    /\ ~IsGroundName(n, c)
    /\ c.include_residual
    /\ EndsWith(n, ResidualSuffix)

\* for fname in sorted(os.listdir(tiles_dir)): the three buckets
tree_files(dir) == SelectSeq(Sorted(DOMAIN dir), IsTreeName)
ground_files(dir, c) == SelectSeq(Sorted(DOMAIN dir), LAMBDA n : IsGroundName(n, c))
residual_files(dir, c) == SelectSeq(Sorted(DOMAIN dir), LAMBDA n : IsResidualName(n, c))

\* a donor choice that takes the last tree file of the listing
first_file_last(dir) == tree_files(dir)[Len(tree_files(dir))]

\* line 132: first_file = tree_files[0], the header donor
first_file(dir) == tree_files(dir)[1]

\* a plan that takes the first tree file for its header only
MergePlanSkipDonor(dir, c) ==
    Tail(tree_files(dir))
    \o (IF c.include_ground THEN ground_files(dir, c) ELSE <<>>)
    \o (IF c.include_residual THEN residual_files(dir, c) ELSE <<>>)

\* the files append_files is called on, in call order
MergePlan(dir, c) ==
    tree_files(dir)
    \o (IF c.include_ground THEN ground_files(dir, c) ELSE <<>>)
    \o (IF c.include_residual THEN residual_files(dir, c) ELSE <<>>)

\* a naming that puts the residual part before the ground part
out_filename_residual_first(c) ==
    IF c.out_filename = None
    THEN campaign_uid \o <<95>> \o <<116, 114, 101, 101, 115>>
         \o (IF c.include_residual THEN <<95, 114, 101, 115, 105, 100, 117, 97, 108>> ELSE <<>>)
         \o (IF c.include_ground THEN <<95, 103, 114, 111, 117, 110, 100>> ELSE <<>>)
         \o <<46, 108, 97, 122>>
    ELSE Get(c.out_filename)

\* the name of the merged file inside merged/
out_filename(c) ==
    IF c.out_filename = None
    THEN campaign_uid \o <<95>> \o <<116, 114, 101, 101, 115>>
         \o (IF c.include_ground THEN <<95, 103, 114, 111, 117, 110, 100>> ELSE <<>>)
         \o (IF c.include_residual THEN <<95, 114, 101, 115, 105, 100, 117, 97, 108>> ELSE <<>>)
         \o <<46, 108, 97, 122>>
    ELSE Get(c.out_filename)

\* a box that only covers the chunk at hand
merge_update_bbox_chunk_only(current_bbox, points) ==
    << <<SeqMin(Xs(points)), SeqMin(Ys(points)), SeqMin(Zs(points))>>,
       <<SeqMax(Xs(points)), SeqMax(Ys(points)), SeqMax(Zs(points))>> >>

\* merge.py _update_bbox
merge_update_bbox(current_bbox, points) ==
    LET chunk_min == <<SeqMin(Xs(points)), SeqMin(Ys(points)), SeqMin(Zs(points))>>
        chunk_max == <<SeqMax(Xs(points)), SeqMax(Ys(points)), SeqMax(Zs(points))>>
    IN  IF current_bbox = None
        THEN <<chunk_min, chunk_max>>
        ELSE << <<MinOf(current_bbox[1][1], chunk_min[1]),
                  MinOf(current_bbox[1][2], chunk_min[2]),
                  MinOf(current_bbox[1][3], chunk_min[3])>>,
                <<MaxOf(current_bbox[2][1], chunk_max[1]),
                  MaxOf(current_bbox[2][2], chunk_max[2]),
                  MaxOf(current_bbox[2][3], chunk_max[3])>> >>

\* a record whose identity carries the flags only under the default file name
MergeAssetRecordByName(c, dir, name, n, epsg) ==
    [asset_uid |-> <<"pc", campaign_uid, "merged">>
                   \o (IF c.include_ground /\ c.out_filename = None
                       THEN <<"ground">> ELSE <<>>)
                   \o (IF c.include_residual /\ c.out_filename = None
                       THEN <<"residual">> ELSE <<>>),
     campaign_uid |-> campaign_uid,
     tree_uid |-> None,
     scope |-> "campaign",
     pc_role |-> "merged",
     asset_type |-> "pointcloud",
     format |-> "LAZ",
     uri |-> <<campaign_uid, "merged", name>>,
     crs_epsg |-> epsg,
     point_count |-> n,
     bytes |-> file_size(dir, name),
     hash |-> None,
     created_at |-> None,
     notes |-> None]

MergeAssetRecord(c, dir, name, n, epsg) ==
    [asset_uid |-> <<"pc", campaign_uid, "merged">>
                   \o (IF c.include_ground THEN <<"ground">> ELSE <<>>)
                   \o (IF c.include_residual THEN <<"residual">> ELSE <<>>),
     campaign_uid |-> campaign_uid,
     tree_uid |-> None,
     scope |-> "campaign",
     pc_role |-> "merged",
     asset_type |-> "pointcloud",
     format |-> "LAZ",
     uri |-> <<campaign_uid, "merged", name>>,
     crs_epsg |-> epsg,
     point_count |-> n,
     bytes |-> file_size(dir, name),
     hash |-> None,
     created_at |-> None,
     notes |-> None]

MergeFrame ==
    UNCHANGED <<op, cfg, input_paths, srcfiles, tiles_exists, tiles, index, tile_id,
                counts, masks, runs, first_run,
                tiles_at_call, other_vars>>

\* a variant that creates the merged directory before it looks for tiles/
MergeNotFoundAfterMakedirs ==
    /\ op = "merge" /\ pc = "idle"
    /\ ~tiles_exists
    /\ merged_exists' = TRUE
    /\ outcome' = <<"FileNotFoundError">>
    /\ pc' = "failed"
    /\ MergeFrame
    /\ UNCHANGED <<merged, reader, pos, bboxes, asset_records, touched, queue,
                   point_count, merged_path, crs_epsg, open_streams, returned>>

\* lines 99-102: the tiles directory does not exist
MergeNotFound ==
    /\ op = "merge" /\ pc = "idle"
    /\ ~tiles_exists
    /\ outcome' = <<"FileNotFoundError">>
    /\ pc' = "failed"
    /\ MergeFrame
    /\ UNCHANGED <<merged, reader, pos, bboxes, asset_records, touched, queue,
                   point_count, merged_path, crs_epsg, open_streams,
                   merged_exists, returned>>

\* lines 104-117: no tree pack file in the listing
MergeNoTrees ==
    /\ op = "merge" /\ pc = "idle"
    /\ tiles_exists
    /\ tree_files(tiles) = <<>>
    /\ outcome' = <<"ValueError">>
    /\ pc' = "failed"
    /\ MergeFrame
    /\ UNCHANGED <<merged, reader, pos, bboxes, asset_records, touched, queue,
                   point_count, merged_path, crs_epsg, open_streams,
                   merged_exists, returned>>

\* a variant that keeps the listing of the first call for the later ones
MergeOpenStaleListing ==
    /\ op = "merge" /\ pc = "idle"
    /\ tiles_exists
    /\ tree_files(tiles) # <<>>
    /\ LET header == tiles[first_file(tiles)]
           name == out_filename(cfg)
       IN  /\ merged_path' = name
           /\ crs_epsg' = header.epsg
           /\ merged' = OpenForWrite(merged, name, header)
           /\ touched' = {name}
           /\ open_streams' = {<<"r", first_file(tiles)>>, <<"w", name>>}
    /\ queue' = MergePlan(IF first_run = None THEN tiles ELSE Get(first_run).tiles, cfg)
    /\ point_count' = 0
    /\ bboxes' = None
    /\ reader' = None
    /\ pos' = 0
    /\ merged_exists' = TRUE
    /\ pc' = "append"
    /\ MergeFrame
    /\ UNCHANGED <<asset_records, outcome, returned>>

\* lines 104-138: discovery, the output name, the header donor and the writer
MergeOpen ==
    /\ op = "merge" /\ pc = "idle"
    /\ tiles_exists
    /\ tree_files(tiles) # <<>>
    /\ LET header == tiles[first_file(tiles)]
           name == out_filename(cfg)
       IN  /\ merged_path' = name
           /\ crs_epsg' = header.epsg
           /\ merged' = OpenForWrite(merged, name, header)
           /\ touched' = {name}
           /\ open_streams' = {<<"r", first_file(tiles)>>, <<"w", name>>}
    /\ queue' = MergePlan(tiles, cfg)
    /\ point_count' = 0
    /\ bboxes' = None
    /\ reader' = None
    /\ pos' = 0
    /\ merged_exists' = TRUE
    /\ pc' = "append"
    /\ MergeFrame
    /\ UNCHANGED <<asset_records, outcome, returned>>

\* line 144: with laspy.open(fpath) as src
OpenSrc ==
    /\ op = "merge" /\ pc = "append"
    /\ reader = None
    /\ queue # <<>>
    /\ reader' = Some(tiles[Head(queue)])
    /\ pos' = 0
    /\ open_streams' = open_streams \cup {<<"src", Head(queue)>>}
    /\ MergeFrame
    /\ UNCHANGED <<merged, pc, bboxes, asset_records, outcome, touched, queue,
                   point_count, merged_path, crs_epsg,
                   merged_exists, returned>>

\* lines 145-148: one chunk of the current file
AppendChunk ==
    /\ op = "merge" /\ pc = "append"
    /\ reader # None
    /\ pos < Len(Get(reader).points)
    /\ LET points == NextChunk(Get(reader), pos, cfg.chunk_size)
       IN  /\ merged' = WritePoints(merged, merged_path, points)
           /\ point_count' = point_count + Len(points)
           /\ bboxes' = merge_update_bbox(bboxes, points)
           /\ pos' = pos + Len(points)
    /\ MergeFrame
    /\ UNCHANGED <<pc, reader, asset_records, outcome, touched, queue, merged_path,
                   crs_epsg, open_streams,
                   merged_exists, returned>>

\* the current file is exhausted: src closes and the loop moves on
CloseSrc ==
    /\ op = "merge" /\ pc = "append"
    /\ reader # None
    /\ pos = Len(Get(reader).points)
    /\ reader' = None
    /\ open_streams' = open_streams \ {<<"src", Head(queue)>>}
    /\ queue' = Tail(queue)
    /\ MergeFrame
    /\ UNCHANGED <<merged, pc, pos, bboxes, asset_records, outcome, touched,
                   point_count, merged_path, crs_epsg,
                   merged_exists, returned>>

\* lines 120-136: the directory is made, then laspy.open raises for the header
\* donor or for the writer of the merged file
MergeOpenFails ==
    /\ op = "merge" /\ pc = "idle"
    /\ tiles_exists
    /\ tree_files(tiles) # <<>>
    /\ merged_exists' = TRUE
    /\ \E stage \in {"infile", "writer"} :
         open_streams' = CloseAll(IF stage = "writer"
                                  THEN {<<"r", first_file(tiles)>>}
                                  ELSE {})
    /\ outcome' = <<"IOError">>
    /\ pc' = "failed"
    /\ MergeFrame
    /\ UNCHANGED <<merged, reader, pos, bboxes, asset_records, touched, queue,
                   point_count, merged_path, crs_epsg, returned>>

\* line 144: laspy.open(fpath) raises for the next file to append
OpenSrcFails ==
    /\ op = "merge" /\ pc = "append"
    /\ reader = None
    /\ queue # <<>>
    /\ open_streams' = CloseAll(open_streams)
    /\ outcome' = <<"IOError">>
    /\ pc' = "failed"
    /\ MergeFrame
    /\ UNCHANGED <<merged, reader, pos, bboxes, asset_records, touched, queue,
                   point_count, merged_path, crs_epsg, merged_exists, returned>>

\* a variant that removes the merged file when a chunk fails
AppendFailsCleansUp ==
    /\ op = "merge" /\ pc = "append"
    /\ reader # None
    /\ pos < Len(Get(reader).points)
    /\ reader' = None
    /\ merged' = [n \in (DOMAIN merged) \ {merged_path} |-> merged[n]]
    /\ open_streams' = CloseAll(open_streams)
    /\ outcome' = <<"IOError">>
    /\ pc' = "failed"
    /\ MergeFrame
    /\ UNCHANGED <<pos, bboxes, asset_records, touched, queue,
                   point_count, merged_path, crs_epsg, merged_exists, returned>>

\* lines 145-146: reading the next chunk or writing it raises
AppendFails ==
    /\ op = "merge" /\ pc = "append"
    /\ reader # None
    /\ pos < Len(Get(reader).points)
    /\ reader' = None
    /\ open_streams' = CloseAll(open_streams)
    /\ outcome' = <<"IOError">>
    /\ pc' = "failed"
    /\ MergeFrame
    /\ UNCHANGED <<merged, pos, bboxes, asset_records, touched, queue,
                   point_count, merged_path, crs_epsg, merged_exists, returned>>

\* lines 159-183: the streams close and the asset record is returned
MergeFinish ==
    /\ op = "merge" /\ pc = "append"
    /\ reader = None
    /\ queue = <<>>
    /\ open_streams' = CloseAll(open_streams)
    /\ asset_records' = <<MergeAssetRecord(cfg, merged, merged_path, point_count, crs_epsg)>>
    /\ returned' = Some(<<MergeAssetRecord(cfg, merged, merged_path, point_count, crs_epsg)>>)
    /\ outcome' = <<"ok">>
    /\ pc' = "done"
    /\ MergeFrame
    /\ UNCHANGED <<merged, reader, pos, bboxes, touched, queue, point_count,
                   merged_path, crs_epsg, merged_exists>>

\* a tile file that an import may add to tiles/ between two merges; it sorts
\* before the other tree packs
NameTreeAA == <<97, 95, 97>> \o TreeSuffix      \* a_a_tree_pack.laz

AddedTile == File(Some(4326), TRUE, << Pt(2, 0, 0, 3, Num(7)) >>)

\* the caller merges again with the same arguments, after a tile import may
\* have added a file to tiles/; runs counts the repeated calls, and the model
\* repeats the calls made with the largest chunk size
MergeAgain ==
    /\ op = "merge" /\ pc = "done"
    /\ runs + 1 < MaxRuns
    /\ cfg.chunk_size = MaxChunk
    /\ runs' = runs + 1
    /\ first_run' = IF runs = 0
                    THEN Some([tiles |-> tiles,
                               points |-> merged[merged_path].points,
                               returned |-> returned])
                    ELSE first_run
    /\ \E add \in BOOLEAN :
         tiles' = IF add THEN Put(tiles, NameTreeAA, AddedTile) ELSE tiles
    /\ tiles_at_call' = tiles'
    /\ outcome' = None
    /\ returned' = None
    /\ pc' = "idle"
    /\ UNCHANGED <<op, cfg, input_paths, srcfiles, tiles_exists, merged, index, tile_id,
                   reader, pos, counts, bboxes, masks, asset_records, touched, queue,
                   point_count, merged_path, crs_epsg, open_streams, merged_exists,
                   other_vars>>

MergeNext ==
    \/ MergeNotFound
    \/ MergeNoTrees
    \/ MergeOpen
    \/ MergeOpenFails
    \/ OpenSrc
    \/ OpenSrcFails
    \/ AppendChunk
    \/ AppendFails
    \/ CloseSrc
    \/ MergeFinish
    \/ MergeAgain

(***************************************************************************)
(* The bounding-box reduction on its own: a caller folds _update_bbox over *)
(* a sequence of non-empty sub-chunks, starting from an unset box.         *)
(***************************************************************************)
\* the consecutive groups of points that the cut positions make of pts: a cut
\* at i ends a group after the i-th point
RECURSIVE Groups(_, _)
Groups(pts, cuts) ==
    IF pts = <<>> THEN <<>>
    ELSE LET ends == {i \in cuts : i < Len(pts)} \cup {Len(pts)}
             e == CHOOSE i \in ends : \A j \in ends : i <= j
         IN  <<SubSeq(pts, 1, e)>>
             \o Groups(SubSeq(pts, e + 1, Len(pts)), {i - e : i \in {j \in cuts : j > e}})

\* the sub-chunk sequences a point sequence can be cut into, in every order
Regroupings(pts) ==
    { [i \in 1..Len(g) |-> g[p[i]]] :
        <<g, p>> \in UNION { {<<Groups(pts, c), q>> : q \in Permutations(1..Len(Groups(pts, c)))} :
                             c \in SUBSET (1..(Len(pts) - 1)) } }

InitBbox ==
    /\ op = "bbox"
    /\ cfg \in {[module |-> "lidar"], [module |-> "merge"]}
    /\ \E pts \in SeqsUpTo(PointPool, MaxTileLen) \cup {PlotTile} :
         subchunks \in Regroupings(pts)
    /\ bboxes = None
    /\ index = 0
    /\ pc = "reduce"
    /\ input_paths = <<>>
    /\ srcfiles = <<>>
    /\ tiles_exists = FALSE
    /\ tiles = <<>>
    /\ merged = <<>>
    /\ tile_id = <<>>
    /\ reader = None
    /\ pos = 0
    /\ counts = NoCounts
    /\ masks = None
    /\ asset_records = <<>>
    /\ outcome = None
    /\ runs = 0
    /\ first_run = None
    /\ touched = {}
    /\ queue = <<>>
    /\ point_count = 0
    /\ merged_path = <<>>
    /\ crs_epsg = None
    /\ open_streams = {}
    /\ merged_exists = FALSE
    /\ returned = None
    /\ tiles_at_call = <<>>
    /\ measurement = None
    /\ trees = <<>>
    /\ temp_tree = None

\* bbox = _update_bbox(bbox, sub_chunk) for the next sub-chunk
UpdateBbox ==
    /\ op = "bbox" /\ pc = "reduce"
    /\ index < Len(subchunks)
    /\ bboxes' = IF cfg.module = "lidar"
                 THEN update_bbox(bboxes, subchunks[index + 1])
                 ELSE merge_update_bbox(bboxes, subchunks[index + 1])
    /\ index' = index + 1
    /\ UNCHANGED <<op, cfg, input_paths, srcfiles, tiles_exists, tiles, merged, pc,
                   tile_id, reader, pos, counts, masks, asset_records, outcome, runs,
                   first_run, touched, queue, point_count, merged_path, crs_epsg,
                   open_streams, merged_exists, returned, tiles_at_call, other_vars>>

BboxNext == UpdateBbox

(***************************************************************************)
(* singletree/matching.py: match_measurement_to_tree, assign_measurement.  *)
(* A float is Num(n) or Infinity; an optional value is None or Some(v).    *)
(***************************************************************************)
Infinity == [k |-> "inf", v |-> 0]     \* float("inf")

\* a <= b on floats
FloatLeq(a, b) == IF a.k = "inf" THEN b.k = "inf" ELSE (b.k = "inf" \/ a.v <= b.v)

\* abs(float(a) - float(b))
AbsDiff(a, b) == Num(IF a >= b THEN a - b ELSE b - a)

\* the truth value Python gives an optional string
Truthy(o) == o # None /\ Get(o) # ""

MatchConfig(dbh_tolerance, height_tolerance, species_must_match) ==
    [dbh_tolerance |-> dbh_tolerance, height_tolerance |-> height_tolerance,
     species_must_match |-> species_must_match]

\* a tree record, with the keys the matching reads
Tree(tree_uid, dbh_cm, height_m, species_code, is_temporary) ==
    [tree_uid |-> tree_uid, dbh_cm |-> dbh_cm, height_m |-> height_m,
     species_code |-> species_code, is_temporary |-> is_temporary]

\* lines 124-125: the species check that makes the loop skip a tree
SpeciesSkip(m, t, c) ==
    /\ c.species_must_match
    /\ Truthy(m.species_code)
    /\ Truthy(t.species_code)
    /\ m.species_code # t.species_code

\* lines 128-136: the differences, infinite when a value is missing
dbh_diff(m, t) ==
    IF m.dbh_cm # None /\ t.dbh_cm # None
    THEN AbsDiff(Get(m.dbh_cm), Get(t.dbh_cm))
    ELSE Infinity

height_diff(m, t) ==
    IF m.height_m # None /\ t.height_m # None
    THEN AbsDiff(Get(m.height_m), Get(t.height_m))
    ELSE Infinity

\* a collection of the candidates that does not pass over temporary trees
RECURSIVE candidates_with_temporary(_, _, _)
candidates_with_temporary(m, ts, c) ==
    IF ts = <<>> THEN <<>>
    ELSE LET t == Head(ts)
             rest == candidates_with_temporary(m, Tail(ts), c)
         IN  IF SpeciesSkip(m, t, c) THEN rest
             ELSE IF /\ FloatLeq(dbh_diff(m, t), c.dbh_tolerance)
                     /\ FloatLeq(height_diff(m, t), c.height_tolerance)
                  THEN << <<t.tree_uid, dbh_diff(m, t), height_diff(m, t)>> >> \o rest
                  ELSE rest

\* lines 112-140: the candidates (tree_uid, dbh_diff, height_diff), in the
\* order of the tree list
RECURSIVE candidates(_, _, _)
candidates(m, ts, c) ==
    IF ts = <<>> THEN <<>>
    ELSE LET t == Head(ts)
             rest == candidates(m, Tail(ts), c)
         IN  IF t.is_temporary # 0 THEN rest
             ELSE IF SpeciesSkip(m, t, c) THEN rest
             ELSE IF /\ FloatLeq(dbh_diff(m, t), c.dbh_tolerance)
                     /\ FloatLeq(height_diff(m, t), c.height_tolerance)
                  THEN << <<t.tree_uid, dbh_diff(m, t), height_diff(m, t)>> >> \o rest
                  ELSE rest

\* the sort key (x[1], x[2]) of a candidate, compared as Python compares tuples
KeyLess(a, b) ==
    \/ (FloatLeq(a[2], b[2]) /\ a[2] # b[2])
    \/ (a[2] = b[2] /\ FloatLeq(a[3], b[3]) /\ a[3] # b[3])

\* a choice that takes the last candidate of the list
best_candidate_last(cands) == cands[Len(cands)][1]

\* lines 151-152: candidates.sort(key=...) is stable, so the first element
\* after the sort is the earliest candidate of the list with a least key
best_candidate(cands) ==
    LET i == CHOOSE i \in 1..Len(cands) :
                 /\ \A j \in 1..Len(cands) : ~KeyLess(cands[j], cands[i])
                 /\ \A j \in 1..(i - 1) : KeyLess(cands[i], cands[j])
    IN  cands[i][1]

\* lines 142-153: (tree_uid, match_status, candidate_tree_uid)
match_measurement_to_tree(m, ts, c) ==
    LET cands == candidates(m, ts, c)
    IN  IF Len(cands) = 1 THEN <<Some(cands[1][1]), "auto", None>>
        ELSE IF Len(cands) = 0 THEN <<None, "unmatched", None>>
        ELSE <<None, "unmatched", Some(best_candidate(cands))>>

\* the identifiers uuid4 can come up with, taken to be fresh: none that a
\* record of the list already carries
TempUidPool == {"temp_1", "temp_2", "temp_3"}

generate_temporary_tree_uid(ts) == TempUidPool \ {ts[i].tree_uid : i \in 1..Len(ts)}

\* a temporary tree record that does not carry the temporary flag
TemporaryTreeUnflagged(tmp_uid, m) ==
    Tree(tmp_uid, m.dbh_cm, m.height_m, m.species_code, 0)

\* lines 199-212: the temporary tree record built from the measurement
TemporaryTree(tmp_uid, m) ==
    Tree(tmp_uid, m.dbh_cm, m.height_m, m.species_code, 1)

(***************************************************************************)
(* Inputs of the matching.                                                 *)
(***************************************************************************)
TreePool ==
    << Tree("t1", Some(10), Some(20), Some("A"), 0),
       Tree("t2", Some(12), Some(21), Some("A"), 0),
       Tree("t3", Some(11), Some(20), Some("B"), 0),
       Tree("t4", Some(11), Some(20), None, 0),
       Tree("t5", None, Some(20), Some("A"), 0),
       Tree("t6", Some(11), Some(20), Some("A"), 1) >>

\* the tree lists: every selection of trees of the pool, in pool order
TreeLists ==
    { SelectSeq(TreePool, LAMBDA t : t.tree_uid \in S) :
        S \in SUBSET {TreePool[i].tree_uid : i \in 1..Len(TreePool)} }

\* the measurement records, carrying values of an earlier assignment
Measurements ==
    { [dbh_cm |-> d, height_m |-> h, species_code |-> s,
       tree_uid |-> Some("old"), match_status |-> "manual",
       candidate_tree_uid |-> Some("old")] :
        d \in {None, Some(11)}, h \in {None, Some(20)}, s \in {None, Some("A"), Some("B")} }

MatchConfigs ==
    { MatchConfig(dt, Num(1), smm) : dt \in {Num(0), Num(2), Infinity}, smm \in BOOLEAN }

InitMatch ==
    /\ op = "match"
    /\ cfg \in MatchConfigs
    /\ measurement \in Measurements
    /\ trees \in TreeLists
    /\ temp_tree = None
    /\ pc = "idle"
    /\ runs = 0
    /\ outcome = None
    /\ returned = None
    /\ first_run = None
    /\ subchunks = <<>>
    /\ bboxes = None
    /\ index = 0
    /\ input_paths = <<>>
    /\ srcfiles = <<>>
    /\ tiles_exists = FALSE
    /\ tiles = <<>>
    /\ merged = <<>>
    /\ tile_id = <<>>
    /\ reader = None
    /\ pos = 0
    /\ counts = NoCounts
    /\ masks = None
    /\ asset_records = <<>>
    /\ touched = {}
    /\ queue = <<>>
    /\ point_count = 0
    /\ merged_path = <<>>
    /\ crs_epsg = None
    /\ open_streams = {}
    /\ merged_exists = FALSE
    /\ tiles_at_call = <<>>

\* what a matching step leaves alone
MatchFrame ==
    UNCHANGED <<op, cfg, input_paths, srcfiles, tiles_exists, tiles, merged, index,
                tile_id, reader, pos, counts, bboxes, masks, asset_records, touched,
                queue, point_count, merged_path, crs_epsg, open_streams,
                merged_exists, tiles_at_call, subchunks>>

\* lines 188-195: the match is 'auto': the measurement gets the tree
AssignAuto ==
    /\ op = "match" /\ pc = "idle"
    /\ LET res == match_measurement_to_tree(measurement, trees, cfg)
       IN  /\ res[2] = "auto" /\ res[1] # None
           /\ measurement' = [measurement EXCEPT !.tree_uid = res[1],
                                                 !.match_status = "auto",
                                                 !.candidate_tree_uid = None]
           /\ temp_tree' = None
           /\ returned' = Some(<<measurement', None>>)
    /\ outcome' = <<"ok">>
    /\ runs' = runs + 1
    /\ pc' = "done"
    /\ UNCHANGED <<trees, first_run>>
    /\ MatchFrame

\* lines 196-215: otherwise a temporary tree is made for the measurement
AssignTemporary ==
    /\ op = "match" /\ pc = "idle"
    /\ LET res == match_measurement_to_tree(measurement, trees, cfg)
       IN  /\ ~(res[2] = "auto" /\ res[1] # None)
           /\ \E tmp_uid \in generate_temporary_tree_uid(trees) :
                /\ temp_tree' = Some(TemporaryTree(tmp_uid, measurement))
                /\ measurement' = [measurement EXCEPT !.tree_uid = Some(tmp_uid),
                                                      !.match_status = "unmatched",
                                                      !.candidate_tree_uid = res[3]]
                /\ returned' = Some(<<measurement', temp_tree'>>)
    /\ outcome' = <<"ok">>
    /\ runs' = runs + 1
    /\ pc' = "done"
    /\ UNCHANGED <<trees, first_run>>
    /\ MatchFrame

\* the caller adds the temporary tree, if one was returned, to its tree list
\* and assigns the measurement again
AssignAgain ==
    /\ op = "match" /\ pc = "done"
    /\ runs < MaxRuns
    /\ trees' = IF temp_tree = None THEN trees ELSE Append(trees, Get(temp_tree))
    /\ pc' = "idle"
    /\ UNCHANGED <<measurement, temp_tree, returned, outcome, runs, first_run>>
    /\ MatchFrame

MatchNext == AssignAuto \/ AssignTemporary \/ AssignAgain

Init == InitImport \/ InitMerge \/ InitBbox \/ InitMatch

Next == ImportNext \/ MergeNext \/ BboxNext \/ MatchNext

Spec == Init /\ [][Next]_vars

(***************************************************************************)
(* Vocabulary of the properties.                                           *)
(***************************************************************************)
\* a tile of the running import call has just been finished: counts, bboxes,
\* tile_id and the files of the tile are those of input_paths[index]
TileEnded == op = "import" /\ pc = "loop" /\ index >= 1

\* the source file of the tile that was just finished
EndedSource == srcfiles[input_paths[index]]

\* the source file of the tile being read
CurrentSource == Get(reader)

\* the number of elements of s that satisfy Test
CountOf(s, Test(_)) == Cardinality({i \in 1..Len(s) : Test(s[i])})

InGround(p) == p.sem \in cfg.ground_codes
InTree(p) == p.sem \in cfg.tree_codes
InNeither(p) == ~InGround(p) /\ ~InTree(p)

\* whether the optional residual mask selects index i
ResidualAt(m, i) == m.residual # None /\ Get(m.residual)[i]

(***************************************************************************)
(* C1 (Exclusivity).  For every chunk of every file and every              *)
(* configuration, the tree, ground and residual masks of the chunk are     *)
(* pairwise disjoint: no index is selected by two of them.                 *)
(***************************************************************************)
C1_MasksPairwiseDisjoint ==
    (op = "import" /\ masks # None) =>
        LET m == Get(masks)
        IN  \A i \in 1..Len(m.tree) :
              /\ ~(m.tree[i] /\ m.ground[i])
              /\ ~(m.tree[i] /\ ResidualAt(m, i))
              /\ ~(m.ground[i] /\ ResidualAt(m, i))

(***************************************************************************)
(* C2 (Conservation).  When a tile has been consumed to its last chunk,    *)
(* count(tree) + count(ground) + count(residual) + count(dropped) is the   *)
(* number of points of the source, dropped being the points whose          *)
(* semantic code is in neither code set.                                   *)
(***************************************************************************)
C2_Conservation ==
    TileEnded =>
        counts.tree + counts.ground + counts.residual
            + CountOf(EndedSource.points, InNeither)
        = Len(EndedSource.points)

(***************************************************************************)
(* More vocabulary: what a file holds, what a correct result is.           *)
(***************************************************************************)
\* the points a directory holds under a name (none when there is no file)
Written(dir, name) == IF name \in DOMAIN dir THEN dir[name].points ELSE <<>>

NamesWith(dir, suf) == {n \in DOMAIN dir : EndsWith(n, suf)}

\* the enumeration of the names of S in strictly ascending string order
Ascending(S) ==
    CHOOSE s \in [1..Cardinality(S) -> S] :
        \A i, j \in 1..Cardinality(S) : i < j => LexLess(s[i], s[j])

RECURSIVE PointsOf(_, _)
PointsOf(dir, names) ==
    IF names = <<>> THEN <<>>
    ELSE dir[Head(names)].points \o PointsOf(dir, Tail(names))

\* the total number of points of the files of S
TotalPoints(dir, S) ==
    Cardinality(UNION { {<<n, i>> : i \in 1..Len(dir[n].points)} : n \in S })

IsPrefix(a, b) == Len(a) <= Len(b) /\ SubSeq(b, 1, Len(a)) = a

LeastOf(S) == CHOOSE m \in S : \A v \in S : m <= v
GreatestOf(S) == CHOOSE m \in S : \A v \in S : m >= v

\* elementwise min and max over the points of s; None for no point
BboxOf(s) ==
    IF Len(s) = 0 THEN None
    ELSE LET X == {s[i].x : i \in 1..Len(s)}
             Y == {s[i].y : i \in 1..Len(s)}
             Z == {s[i].z : i \in 1..Len(s)}
         IN  << <<LeastOf(X), LeastOf(Y), LeastOf(Z)>>,
                <<GreatestOf(X), GreatestOf(Y), GreatestOf(Z)>> >>

\* the instance of p is unusable in a file with or without the attribute
NoValidInstance(p, has_inst) ==
    \/ ~has_inst
    \/ (p.inst.k = "num" /\ p.inst.v <= 0)
    \/ p.inst.k = "nan"

MergeRunning == op = "merge" /\ pc \in {"append", "done"}

\* what a merge of the tiles directory has to produce
ExpectedMerge ==
    PointsOf(tiles, Ascending(NamesWith(tiles, TreeSuffix)))
    \o (IF cfg.include_ground
        THEN PointsOf(tiles, Ascending(NamesWith(tiles, GroundSuffix)))
        ELSE <<>>)
    \o (IF cfg.include_residual
        THEN PointsOf(tiles, Ascending(NamesWith(tiles, ResidualSuffix)))
        ELSE <<>>)

(***************************************************************************)
(* C3 (Merge ordering).  The merged output is the concatenation of the     *)
(* tree-role files in ascending file-name order, then (only if             *)
(* include_ground) the ground-role files in ascending order, then (only if *)
(* include_residual) the residual-role files in ascending order; while the *)
(* merge runs the output is a prefix of that sequence.                     *)
(***************************************************************************)
C3_MergeOrdering ==
    MergeRunning =>
        /\ IsPrefix(Written(merged, merged_path), ExpectedMerge)
        /\ pc = "done" => Written(merged, merged_path) = ExpectedMerge

C3_Witness ==
    /\ op = "merge" /\ pc = "done"
    /\ cfg.include_ground /\ cfg.include_residual
    /\ {NameTreeA, NameTreeAB, NameGroundA, NameGroundB, NameResidualA} \subseteq DOMAIN tiles
    /\ Len(tiles[NameTreeA].points) > 0
    /\ Len(tiles[NameTreeAB].points) > 0

(***************************************************************************)
(* C4 (Bounding-box correctness).  The bounding box held for a role of a   *)
(* tile import, and the one held by a merge, is the elementwise min and    *)
(* max of x, y, z over exactly the points written to that output, and is   *)
(* None exactly when nothing was written to it.  It holds after every      *)
(* chunk, hence at the end of the tile and of the merge.                   *)
(***************************************************************************)
C4_BoundingBoxCorrect ==
    /\ (op = "import" /\ (pc = "chunks" \/ TileEnded)) =>
          /\ bboxes.tree = BboxOf(Written(tiles, tree_pack_path(tile_id)))
          /\ bboxes.ground = BboxOf(Written(tiles, ground_only_path(tile_id)))
          /\ bboxes.residual = BboxOf(Written(tiles, residual_path(tile_id)))
    /\ MergeRunning => bboxes = BboxOf(Written(merged, merged_path))

\* a tile read point by point whose tree box was grown by a later chunk and
\* whose ground output stayed empty
C4_Witness ==
    /\ TileEnded
    /\ cfg.chunk_size = 1
    /\ counts.tree >= 2
    /\ bboxes.tree # None
    /\ bboxes.tree # BboxOf(<<Written(tiles, tree_pack_path(tile_id))[1]>>)
    /\ counts.ground = 0
    /\ bboxes.ground = None

\* the classification rules, point by point
ResidualRule(p, has_inst) == InTree(p) /\ NoValidInstance(p, has_inst)
TreeRule(p, has_inst) == InTree(p) /\ ~ResidualRule(p, has_inst)

\* the chunk the masks of the state were computed from
LastChunk ==
    SubSeq(CurrentSource.points, pos - Len(Get(masks).tree) + 1, pos)

AllPoints(s, Test(_)) == \A i \in 1..Len(s) : Test(s[i])

IsScenarioA(f) ==
    /\ Len(f.points) = 10
    /\ f.has_inst
    /\ cfg.ground_codes = {1} /\ cfg.tree_codes = {2, 3}
    /\ CountOf(f.points, InGround) = 4
    /\ CountOf(f.points, InTree) = 6
    /\ CountOf(f.points, LAMBDA p : InTree(p) /\ p.inst.k = "num" /\ p.inst.v <= 0) = 1
    /\ CountOf(f.points, LAMBDA p : InTree(p) /\ p.inst.k = "nan") = 0

(***************************************************************************)
(* C5 (Classification, residual extraction on).  A point is selected for   *)
(* (and written to) residual iff its code is a tree code and its instance  *)
(* is absent from the file, <= 0 or NaN; for tree iff its code is a tree   *)
(* code and it is not residual; for ground iff its code is a ground code.  *)
(* The 10-point tile with 4 ground and 6 tree points, one of them with     *)
(* instance <= 0, gives tree=5, ground=4, residual=1, dropped=0.           *)
(***************************************************************************)
C5_ClassificationResidualOn ==
    (op = "import" /\ cfg.include_residual) =>
        /\ (pc = "chunks" /\ masks # None) =>
              \A i \in 1..Len(LastChunk) :
                  LET p == LastChunk[i]
                      hi == CurrentSource.has_inst
                  IN  /\ ResidualAt(Get(masks), i) <=> ResidualRule(p, hi)
                      /\ Get(masks).tree[i] <=> TreeRule(p, hi)
                      /\ Get(masks).ground[i] <=> InGround(p)
        /\ TileEnded =>
              LET f == EndedSource
                  hi == f.has_inst
                  tree == Written(tiles, tree_pack_path(tile_id))
                  ground == Written(tiles, ground_only_path(tile_id))
                  residual == Written(tiles, residual_path(tile_id))
              IN  /\ AllPoints(residual, LAMBDA p : ResidualRule(p, hi))
                  /\ AllPoints(tree, LAMBDA p : TreeRule(p, hi))
                  /\ AllPoints(ground, InGround)
                  /\ Len(residual) = CountOf(f.points, LAMBDA p : ResidualRule(p, hi))
                  /\ Len(tree) = CountOf(f.points, LAMBDA p : TreeRule(p, hi))
                  /\ Len(ground) = CountOf(f.points, InGround)
                  /\ counts = [tree |-> Len(tree), ground |-> Len(ground),
                               residual |-> Len(residual)]
                  /\ IsScenarioA(f) =>
                        /\ counts = [tree |-> 5, ground |-> 4, residual |-> 1]
                        /\ CountOf(f.points, InNeither) = 0

C5_Witness ==
    /\ TileEnded
    /\ cfg.include_residual
    /\ IsScenarioA(EndedSource)
    /\ counts = [tree |-> 5, ground |-> 4, residual |-> 1]

(***************************************************************************)
(* C6 (Classification, residual extraction off).  The residual mask is     *)
(* empty for every chunk and the tree mask is the raw tree mask: every     *)
(* point with a tree code is written to the tree output and counted,       *)
(* whatever its instance value and whether or not the file has the         *)
(* instance attribute.                                                     *)
(***************************************************************************)
C6_ClassificationResidualOff ==
    (op = "import" /\ ~cfg.include_residual) =>
        /\ (pc = "chunks" /\ masks # None) =>
              /\ Get(masks).residual = None
              /\ \A i \in 1..Len(LastChunk) :
                    Get(masks).tree[i] <=> InTree(LastChunk[i])
        /\ TileEnded =>
              /\ Written(tiles, tree_pack_path(tile_id))
                    = SelectSeq(EndedSource.points, InTree)
              /\ counts.tree = CountOf(EndedSource.points, InTree)
              /\ counts.residual = 0

\* a tile whose tree-coded points all have an unusable instance, one NaN and
\* one negative, and are all counted as tree
C6_Witness ==
    /\ TileEnded
    /\ ~cfg.include_residual
    /\ EndedSource.has_inst
    /\ \E i, j \in 1..Len(EndedSource.points) :
          /\ InTree(EndedSource.points[i]) /\ EndedSource.points[i].inst.k = "nan"
          /\ InTree(EndedSource.points[j]) /\ EndedSource.points[j].inst = Num(-1)
    /\ counts.tree = 2

\* the destination files of a tile, in a state and along a step
DestinationNames(tid) ==
    {tree_pack_path(tid), ground_only_path(tid)}
    \cup (IF cfg.include_residual THEN {residual_path(tid)} ELSE {})

C7_DestinationsState ==
    (op = "import" /\ (pc = "chunks" \/ TileEnded)) =>
        /\ tree_pack_path(tile_id) \in DOMAIN tiles
        /\ ground_only_path(tile_id) \in DOMAIN tiles
        /\ residual_path(tile_id) \in DOMAIN tiles <=> cfg.include_residual
        /\ touched = DestinationNames(tile_id)
        /\ ~cfg.include_residual =>
              /\ counts.residual = 0
              /\ bboxes.residual = None
              /\ \A i \in 1..Len(asset_records) :
                    /\ asset_records[i].pc_role # "background_residual"
                    /\ ~EndsWith(asset_records[i].uri[3], ResidualSuffix)

C7_DestinationsStep ==
    op = "import" =>
        /\ DOMAIN tiles \subseteq DOMAIN tiles'
        /\ \A n \in DOMAIN tiles' :
              (n \notin DOMAIN tiles \/ tiles'[n] # tiles[n])
                  => n \in DestinationNames(tile_id')
        /\ srcfiles' = srcfiles
        /\ merged' = merged

(***************************************************************************)
(* C7 (Destination files of one tile import).  From the moment a tile is   *)
(* opened, its tree and ground files exist, even with no point forwarded;  *)
(* its residual file exists iff include_residual.  With residual off the   *)
(* residual count stays 0, its bounding box stays None and no residual     *)
(* record is returned.  No step of an import creates, changes or removes   *)
(* any file other than the destinations of the tile being processed.       *)
(***************************************************************************)
C7_DestinationFiles == [](C7_DestinationsState) /\ [][C7_DestinationsStep]_vars

\* a non-empty tile of which nothing is a tree point, imported with residual
\* off: an empty tree file and no residual file
C7_Witness ==
    /\ TileEnded
    /\ ~cfg.include_residual
    /\ Len(EndedSource.points) > 0
    /\ counts.tree = 0
    /\ tree_pack_path(tile_id) \in DOMAIN tiles
    /\ Written(tiles, tree_pack_path(tile_id)) = <<>>
    /\ residual_path(tile_id) \notin DOMAIN tiles

(***************************************************************************)
(* C8 (Order and content preservation).  At the end of a tile, each role's *)
(* output file holds exactly the source points selected for the role,      *)
(* unchanged and in the source's order, across all chunks.                 *)
(***************************************************************************)
C8_OrderAndContentPreserved ==
    TileEnded =>
        LET f == EndedSource
            hi == f.has_inst
        IN  /\ Written(tiles, tree_pack_path(tile_id))
                 = SelectSeq(f.points,
                             LAMBDA p : IF cfg.include_residual
                                        THEN TreeRule(p, hi) ELSE InTree(p))
            /\ Written(tiles, ground_only_path(tile_id))
                 = SelectSeq(f.points, InGround)
            /\ Written(tiles, residual_path(tile_id))
                 = SelectSeq(f.points,
                             LAMBDA p : cfg.include_residual /\ ResidualRule(p, hi))

\* two different tree points written by two different chunks, with a ground
\* point written as well
C8_Witness ==
    /\ TileEnded
    /\ cfg.chunk_size = 1
    /\ Len(Written(tiles, tree_pack_path(tile_id))) >= 2
    /\ Written(tiles, tree_pack_path(tile_id))[1] # Written(tiles, tree_pack_path(tile_id))[2]
    /\ Len(Written(tiles, ground_only_path(tile_id))) >= 1

(***************************************************************************)
(* C9 (Classification idempotence).  A second import of the same inputs    *)
(* with the same configuration on the same output root leaves the same     *)
(* files with the same point sequences as the first, and returns the same  *)
(* records, counts included.                                               *)
(***************************************************************************)
C9_ImportIdempotent ==
    (op = "import" /\ pc = "done" /\ runs >= 2) =>
        /\ tiles = Get(first_run).tiles
        /\ asset_records = Get(first_run).records

C9_Witness ==
    /\ op = "import" /\ pc = "done" /\ runs = 2
    /\ Len(input_paths) = 2
    /\ \E n \in DOMAIN tiles : Len(tiles[n].points) >= 2

\* the files a merge has to append, and the two-tile scenario
SelectedNames ==
    NamesWith(tiles, TreeSuffix)
    \cup (IF cfg.include_ground THEN NamesWith(tiles, GroundSuffix) ELSE {})
    \cup (IF cfg.include_residual THEN NamesWith(tiles, ResidualSuffix) ELSE {})

IsScenarioB ==
    /\ ~cfg.include_ground /\ ~cfg.include_residual
    /\ Cardinality(NamesWith(tiles, TreeSuffix)) = 2
    /\ {Len(tiles[n].points) : n \in NamesWith(tiles, TreeSuffix)} = {3, 4}

\* the box that covers two boxes
CombinedBbox(a, b) ==
    << <<MinOf(a[1][1], b[1][1]), MinOf(a[1][2], b[1][2]), MinOf(a[1][3], b[1][3])>>,
       <<MaxOf(a[2][1], b[2][1]), MaxOf(a[2][2], b[2][2]), MaxOf(a[2][3], b[2][3])>> >>

(***************************************************************************)
(* C10 (Merge running total).  After every chunk the running point count   *)
(* is the number of points in the merged output; the returned point_count  *)
(* is the sum of the point counts of all selected files, the header donor  *)
(* counted once.  Two tree tiles of 3 and 4 points merged with both flags  *)
(* off give 7 points and the combined bounding box.                        *)
(***************************************************************************)
C10_MergeRunningTotal ==
    MergeRunning =>
        /\ point_count = Len(Written(merged, merged_path))
        /\ pc = "done" =>
              /\ Len(asset_records) = 1
              /\ asset_records[1].point_count = TotalPoints(tiles, SelectedNames)
              /\ IsScenarioB =>
                    /\ asset_records[1].point_count = 7
                    /\ \E a, b \in NamesWith(tiles, TreeSuffix) :
                          /\ a # b
                          /\ bboxes = CombinedBbox(BboxOf(tiles[a].points),
                                                   BboxOf(tiles[b].points))

C10_Witness ==
    /\ op = "merge" /\ pc = "done"
    /\ IsScenarioB
    /\ point_count = 7

\* the tiles directory exists and lists no file of the tree role
NoTreeRole == op = "merge" /\ tiles_exists /\ NamesWith(tiles, TreeSuffix) = {}

(***************************************************************************)
(* C11 (Merge with no tree files).  When the tiles directory exists but    *)
(* holds no file of the tree role, the merge fails with a configuration    *)
(* error (ValueError), returns no asset record and has created neither the *)
(* merged directory nor any output file.                                   *)
(***************************************************************************)
C11_NoTreeFiles ==
    (NoTreeRole /\ pc # "idle") =>
        /\ pc = "failed"
        /\ outcome = <<"ValueError">>
        /\ returned = None
        /\ asset_records = <<>>
        /\ merged = <<>>
        /\ ~merged_exists

C11_Witness ==
    /\ NoTreeRole
    /\ pc = "failed"
    /\ cfg.include_ground /\ cfg.include_residual
    /\ NamesWith(tiles, GroundSuffix) # {}
    /\ NamesWith(tiles, ResidualSuffix) # {}

\* the tiles directory of the campaign does not exist
TilesMissing == op = "merge" /\ ~tiles_exists

(***************************************************************************)
(* C12 (Merge with a missing tiles directory).  When the tiles directory   *)
(* does not exist the merge fails with a not-found error                   *)
(* (FileNotFoundError), never with the no-tree-files error, and the file   *)
(* system is unchanged: no merged directory, no output file, no stream     *)
(* opened, nothing returned.                                               *)
(***************************************************************************)
C12_TilesDirMissing ==
    (TilesMissing /\ pc # "idle") =>
        /\ pc = "failed"
        /\ outcome = <<"FileNotFoundError">>
        /\ returned = None
        /\ asset_records = <<>>
        /\ ~merged_exists
        /\ merged = <<>>
        /\ tiles = tiles_at_call
        /\ open_streams = {}

C12_Witness ==
    /\ TilesMissing
    /\ pc = "failed"
    /\ outcome = <<"FileNotFoundError">>

\* some path of the input list is not a file on disk
SomeInputMissing ==
    op = "import" /\ \E k \in 1..Len(input_paths) : input_paths[k] \notin DOMAIN srcfiles

(***************************************************************************)
(* C13 (Missing source in tile import).  Whatever the position of a        *)
(* missing path in the input list, the import fails with a not-found error *)
(* (FileNotFoundError) and nothing has been written: the tiles directory   *)
(* holds exactly the files it held when the call started.                  *)
(***************************************************************************)
C13_MissingSourceNothingWritten ==
    SomeInputMissing =>
        /\ pc # "done"
        /\ outcome = <<"FileNotFoundError">> => tiles = tiles_at_call

\* some source file of the input list has no semantic dimension in its schema
SomeInputBare ==
    /\ op = "import"
    /\ \E k \in 1..Len(input_paths) :
          /\ input_paths[k] \in DOMAIN srcfiles
          /\ ~srcfiles[input_paths[k]].has_sem

(***************************************************************************)
(* C14 (Missing semantic attribute).  For every source file whose schema   *)
(* lacks the semantic attribute, whatever the number of points of the file *)
(* (zero included), the import fails: the call never returns normally and  *)
(* no asset record is returned.                                            *)
(***************************************************************************)
C14_MissingSemanticAttribute ==
    SomeInputBare =>
        /\ pc # "done"
        /\ returned = None

\* the caller's ground and tree code sets share a code
OverlappingCodes == op = "import" /\ cfg.ground_codes \cap cfg.tree_codes # {}

(***************************************************************************)
(* C15 (Overlapping class sets).  When the ground code set and the tree    *)
(* code set of an import share a code, the call fails with a configuration *)
(* error rather than returning records: it never returns normally.         *)
(***************************************************************************)
C15_OverlappingCodesRejected ==
    OverlappingCodes =>
        /\ pc # "done"
        /\ returned = None

\* the roles an import is asked to produce for each input, in record order
RequestedRoles ==
    <<"tree_pack", "ground_only">>
    \o (IF cfg.include_residual THEN <<"background_residual">> ELSE <<>>)

\* the destination of a role of a tile
RolePath(tid, role) ==
    CASE role = "tree_pack" -> tree_pack_path(tid)
      [] role = "ground_only" -> ground_only_path(tid)
      [] role = "background_residual" -> residual_path(tid)

\* the points of source file f that belong to a role, in file order
RolePoints(f, role) ==
    SelectSeq(f.points,
              LAMBDA p : CASE role = "tree_pack" ->
                                IF cfg.include_residual THEN TreeRule(p, f.has_inst)
                                                        ELSE InTree(p)
                           [] role = "ground_only" -> InGround(p)
                           [] role = "background_residual" -> ResidualRule(p, f.has_inst))

\* the tile id of the k-th input of the list
TileIdOf(k) == derive_tile_id(input_paths[k], k - 1)

\* an import has returned everything it was asked for
ImportComplete(recs) ==
    LET n == Len(input_paths)
        per == Len(RequestedRoles)
    IN  /\ Len(recs) = per * n
        /\ \A k \in 1..n : \A r \in 1..per :
              LET rec == recs[per * (k - 1) + r]
                  role == RequestedRoles[r]
                  name == RolePath(TileIdOf(k), role)
              IN  /\ rec.pc_role = role
                  /\ rec.scope = "tile"
                  /\ rec.asset_uid[3] = TileIdOf(k)
                  /\ rec.uri[3] = name
                  /\ rec.point_count = Len(RolePoints(srcfiles[input_paths[k]], role))
                  /\ name \in DOMAIN tiles
                  /\ \E j \in 1..n :
                        /\ TileIdOf(j) = TileIdOf(k)
                        /\ tiles[name].points = RolePoints(srcfiles[input_paths[j]], role)

\* a merge has returned everything it was asked for
MergeComplete(recs) ==
    /\ Len(recs) = 1
    /\ recs[1].scope = "campaign"
    /\ recs[1].uri[3] = merged_path
    /\ merged_path \in DOMAIN merged
    /\ merged[merged_path].points = ExpectedMerge
    /\ recs[1].point_count = Len(ExpectedMerge)

TileStreams ==
    {<<"r", input_paths[index + 1]>>} \cup {<<"w", n>> : n \in DestinationNames(tile_id)}

(***************************************************************************)
(* C17 (Scoped resources).  Every stream a tile import or a merge opens is *)
(* closed when the operation ends, on every exit path: normal completion,  *)
(* failure to open a later stream, failure while reading, classifying or   *)
(* writing a chunk.  While a tile is processed its reader and its writers  *)
(* are open, while a merge appends its header donor and its writer are     *)
(* open; between tiles and after the call has returned or raised no stream *)
(* is open.                                                                *)
(***************************************************************************)
C17_ScopedResources ==
    /\ pc \in {"idle", "loop", "done", "failed"} => open_streams = {}
    /\ (op = "import" /\ pc = "chunks") => open_streams = TileStreams
    /\ (op = "merge" /\ pc = "append") =>
          /\ {<<"r", Ascending(NamesWith(tiles, TreeSuffix))[1]>>, <<"w", merged_path>>}
                \subseteq open_streams
          /\ Cardinality(open_streams) = IF reader = None THEN 2 ELSE 3

\* an import that failed on the ground write of a chunk whose tree points
\* were already written
C17_Witness ==
    /\ op = "import"
    /\ pc = "failed"
    /\ outcome = <<"IOError">>
    /\ index = 1
    /\ Written(tiles, tree_pack_path(tile_id)) # <<>>
    /\ Written(tiles, ground_only_path(tile_id)) = <<>>
    /\ open_streams = {}

\* what a file's header declares: CRS code and point schema
HeaderOf(f) == [epsg |-> f.epsg, has_inst |-> f.has_inst, has_sem |-> f.has_sem]

\* the first tree-role name of the tiles directory in lexicographic order
DonorName == Ascending(NamesWith(tiles, TreeSuffix))[1]

(***************************************************************************)
(* C18 (Header donor).  The header, point schema and CRS of the merged     *)
(* output are those of the first tree-role file in lexicographic order of  *)
(* the file names, and the crs_epsg of the returned record is the CRS code *)
(* of that file, unset when that file has none.                            *)
(***************************************************************************)
C18_HeaderDonor ==
    MergeRunning =>
        /\ HeaderOf(merged[merged_path]) = HeaderOf(tiles[DonorName])
        /\ crs_epsg = tiles[DonorName].epsg
        /\ pc = "done" => Get(returned)[1].crs_epsg = tiles[DonorName].epsg

\* two tree files with different CRS: the record carries the code of the
\* first name, a_b_tree_pack.laz, and not that of a_tree_pack.laz
C18_Witness ==
    /\ op = "merge" /\ pc = "done"
    /\ {NameTreeA, NameTreeAB} \subseteq DOMAIN tiles
    /\ tiles[NameTreeA].epsg # tiles[NameTreeAB].epsg
    /\ DonorName = NameTreeAB
    /\ Get(returned)[1].crs_epsg = Some(25833)

\* the four default names of campaign "camp", written out
NameTrees == <<99, 97, 109, 112, 95, 116, 114, 101, 101, 115, 46, 108, 97, 122>>
NameTreesGround ==
    <<99, 97, 109, 112, 95, 116, 114, 101, 101, 115, 95, 103, 114, 111, 117, 110, 100,
      46, 108, 97, 122>>
NameTreesResidual ==
    <<99, 97, 109, 112, 95, 116, 114, 101, 101, 115, 95, 114, 101, 115, 105, 100, 117,
      97, 108, 46, 108, 97, 122>>
NameTreesGroundResidual ==
    <<99, 97, 109, 112, 95, 116, 114, 101, 101, 115, 95, 103, 114, 111, 117, 110, 100,
      95, 114, 101, 115, 105, 100, 117, 97, 108, 46, 108, 97, 122>>

\* the default name for a pair of flags
DefaultName(g, r) ==
    CASE ~g /\ ~r -> NameTrees
      [] g /\ ~r -> NameTreesGround
      [] ~g /\ r -> NameTreesResidual
      [] g /\ r -> NameTreesGroundResidual

MergedUid(g, r) ==
    CASE ~g /\ ~r -> <<"pc", campaign_uid, "merged">>
      [] g /\ ~r -> <<"pc", campaign_uid, "merged", "ground">>
      [] ~g /\ r -> <<"pc", campaign_uid, "merged", "residual">>
      [] g /\ r -> <<"pc", campaign_uid, "merged", "ground", "residual">>

(***************************************************************************)
(* C20 (Merged asset identity).  The record of a merge has the identity    *)
(* pc_{campaign}_merged, followed by '_ground' iff include_ground and then *)
(* by '_residual' iff include_residual, whatever explicit output file name *)
(* was given; its scope is 'campaign', its asset type 'pointcloud', and    *)
(* its tree identity, hash and timestamp are unset.                        *)
(***************************************************************************)
C20_MergedAssetIdentity ==
    (op = "merge" /\ pc = "done") =>
        LET rec == Get(returned)[1]
        IN  /\ rec.asset_uid = MergedUid(cfg.include_ground, cfg.include_residual)
            /\ rec.campaign_uid = campaign_uid
            /\ rec.scope = "campaign"
            /\ rec.asset_type = "pointcloud"
            /\ rec.tree_uid = None
            /\ rec.hash = None
            /\ rec.created_at = None

\* a merge of all three roles into custom.laz: the identity still carries
\* both role parts
C20_Witness ==
    /\ op = "merge" /\ pc = "done"
    /\ cfg.out_filename = Some(NameCustom)
    /\ cfg.include_ground /\ cfg.include_residual
    /\ Get(returned)[1].asset_uid = <<"pc", campaign_uid, "merged", "ground", "residual">>
    /\ Get(returned)[1].uri[3] = NameCustom

\* the end "_{role}.laz" of the destination file name of a role
RoleSuffix(role) ==
    CASE role = "tree_pack" -> TreeSuffix
      [] role = "ground_only" -> GroundSuffix
      [] role = "residual" -> ResidualSuffix
      [] OTHER -> <<>>

(***************************************************************************)
(* C21 (Tile asset identity).  Every record returned by a tile import has  *)
(* the identity pc_{campaign}_{tile}_{role}, where {role} is the role the  *)
(* record itself carries, one of tree_pack, ground_only, residual, and is  *)
(* the role part of its destination file name {tile}_{role}.laz; its scope *)
(* is 'tile', its asset type 'pointcloud', and its tree identity, hash and *)
(* timestamp are unset.                                                    *)
(***************************************************************************)
C21_TileAssetIdentity ==
    (op = "import" /\ returned # None) =>
        \A i \in 1..Len(Get(returned)) :
            LET rec == Get(returned)[i]
            IN  /\ Len(rec.asset_uid) = 4
                /\ rec.asset_uid[1] = "pc"
                /\ rec.asset_uid[2] = campaign_uid
                /\ rec.asset_uid[4] \in {"tree_pack", "ground_only", "residual"}
                /\ rec.uri[3] = rec.asset_uid[3] \o RoleSuffix(rec.asset_uid[4])
                /\ rec.pc_role = rec.asset_uid[4]
                /\ rec.scope = "tile"
                /\ rec.asset_type = "pointcloud"
                /\ rec.tree_uid = None
                /\ rec.hash = None
                /\ rec.created_at = None

\* the points of a sequence of sub-chunks, in order
RECURSIVE Flatten(_)
Flatten(chunks) == IF chunks = <<>> THEN <<>> ELSE Head(chunks) \o Flatten(Tail(chunks))

\* the bounding box after folding the update of a module over sub-chunks
RECURSIVE Reduce(_, _, _)
Reduce(module, bbox, chunks) ==
    IF chunks = <<>> THEN bbox
    ELSE Reduce(module,
                IF module = "lidar" THEN update_bbox(bbox, Head(chunks))
                                    ELSE merge_update_bbox(bbox, Head(chunks)),
                Tail(chunks))

\* every sequence of non-empty sub-chunks that holds the same points: the
\* points in any order, cut into consecutive groups in any way
SamePoints(pts) ==
    UNION { {Groups([i \in 1..Len(pts) |-> pts[q[i]]], c) : c \in SUBSET (1..(Len(pts) - 1))} :
            q \in Permutations(1..Len(pts)) }

(***************************************************************************)
(* C22 (Bounding-box reduction).  The first update of an unset bounding    *)
(* box adopts the sub-chunk's own per-axis min and max; every later update *)
(* takes the elementwise minimum of mins and maximum of maxes; and the box *)
(* reached at the end of a sequence of non-empty sub-chunks is the box of  *)
(* every permutation of the sequence and of every regrouping of the same   *)
(* points into sub-chunks.                                                 *)
(***************************************************************************)
C22_BboxReduction ==
    op = "bbox" =>
        /\ index = 0 => bboxes = None
        /\ index = 1 => bboxes = BboxOf(subchunks[1])
        /\ index >= 2 =>
              LET before == BboxOf(Flatten(SubSeq(subchunks, 1, index - 1)))
                  own == BboxOf(subchunks[index])
              IN  bboxes = << <<MinOf(before[1][1], own[1][1]), MinOf(before[1][2], own[1][2]),
                                MinOf(before[1][3], own[1][3])>>,
                              <<MaxOf(before[2][1], own[2][1]), MaxOf(before[2][2], own[2][2]),
                                MaxOf(before[2][3], own[2][3])>> >>
        /\ index = Len(subchunks) =>
              \A other \in SamePoints(Flatten(subchunks)) :
                  Reduce(cfg.module, None, other) = bboxes

\* three different sub-chunks folded, none of which has the final box
C22_Witness ==
    /\ op = "bbox"
    /\ Len(subchunks) = 3
    /\ index = 3
    /\ \A i \in 1..3 : BboxOf(subchunks[i]) # bboxes
    /\ Cardinality(SamePoints(Flatten(subchunks))) > 6

(***************************************************************************)
(* Matching vocabulary: the trees of the list that qualify for the         *)
(* measurement, by position in the list.                                   *)
(***************************************************************************)
MatchResult == match_measurement_to_tree(measurement, trees, cfg)

NatDiff(a, b) == IF a >= b THEN a - b ELSE b - a

\* the species check: with species_must_match, two known species are equal
PassesSpeciesCheck(t) ==
    cfg.species_must_match =>
        \/ measurement.species_code = None
        \/ t.species_code = None
        \/ measurement.species_code = t.species_code

\* both values are there and their difference is within the tolerance
WithinDbh(t) ==
    /\ measurement.dbh_cm # None /\ t.dbh_cm # None
    /\ \/ cfg.dbh_tolerance = Infinity
       \/ NatDiff(Get(measurement.dbh_cm), Get(t.dbh_cm)) <= cfg.dbh_tolerance.v

WithinHeight(t) ==
    /\ measurement.height_m # None /\ t.height_m # None
    /\ \/ cfg.height_tolerance = Infinity
       \/ NatDiff(Get(measurement.height_m), Get(t.height_m)) <= cfg.height_tolerance.v

\* a missing value qualifies under an infinite tolerance
WithinDbhOrUnbounded(t) ==
    IF measurement.dbh_cm # None /\ t.dbh_cm # None
    THEN WithinDbh(t)
    ELSE cfg.dbh_tolerance = Infinity

WithinHeightOrUnbounded(t) ==
    IF measurement.height_m # None /\ t.height_m # None
    THEN WithinHeight(t)
    ELSE cfg.height_tolerance = Infinity

\* the qualifying trees when a missing value never qualifies
QualifyingStrict ==
    { i \in 1..Len(trees) :
        /\ trees[i].is_temporary = 0
        /\ PassesSpeciesCheck(trees[i])
        /\ WithinDbh(trees[i]) /\ WithinHeight(trees[i]) }

\* the qualifying trees when a missing value qualifies under an infinite
\* tolerance only
Qualifying ==
    { i \in 1..Len(trees) :
        /\ trees[i].is_temporary = 0
        /\ PassesSpeciesCheck(trees[i])
        /\ WithinDbhOrUnbounded(trees[i]) /\ WithinHeightOrUnbounded(trees[i]) }

\* tree i is at least as close to the measurement as tree j: smaller DBH
\* difference, or the same and a height difference that is not larger
CloserOrEqual(i, j) ==
    LET di == dbh_diff(measurement, trees[i])
        dj == dbh_diff(measurement, trees[j])
        hi == height_diff(measurement, trees[i])
        hj == height_diff(measurement, trees[j])
    IN  \/ (di # dj /\ FloatLeq(di, dj))
        \/ (di = dj /\ FloatLeq(hi, hj))

\* the result the claim describes for a set Q of qualifying positions
ResultFor(Q) ==
    /\ (\E i \in Q : MatchResult = <<Some(trees[i].tree_uid), "auto", None>>)
           <=> Cardinality(Q) = 1
    /\ Cardinality(Q) = 1 => \A i \in Q : MatchResult[1] = Some(trees[i].tree_uid)
    /\ MatchResult = <<None, "unmatched", None>> <=> Q = {}
    /\ Cardinality(Q) >= 2 =>
           /\ MatchResult[1] = None /\ MatchResult[2] = "unmatched"
           /\ \E i \in Q : /\ MatchResult[3] = Some(trees[i].tree_uid)
                           /\ \A j \in Q : CloserOrEqual(i, j)

\* C23 as stated: the result of match_measurement_to_tree is 'auto' with the
\* tree iff exactly one non-temporary tree is within both tolerances and
\* passes the species check, (None, 'unmatched', None) iff none is, and with
\* two or more the candidate is the one with the smallest DBH difference, ties
\* by height difference; a missing dbh_cm or height_m never qualifies.
C23_MatchResultStrict ==
    op = "match" => ResultFor(QualifyingStrict)

\* C23 amended: the same result, over the trees that qualify when a missing
\* dbh_cm or height_m qualifies under an infinite tolerance and never under
\* a finite one.
C23_MatchResult ==
    op = "match" =>
        /\ ResultFor(Qualifying)
        /\ \A i \in Qualifying :
             /\ (measurement.dbh_cm = None \/ trees[i].dbh_cm = None)
                    => cfg.dbh_tolerance = Infinity
             /\ (measurement.height_m = None \/ trees[i].height_m = None)
                    => cfg.height_tolerance = Infinity

\* a measurement assigned with three qualifying trees, one of them through a
\* missing DBH, and a candidate that is not the first of the list
C23_Witness ==
    /\ op = "match" /\ pc = "done"
    /\ Cardinality(Qualifying) >= 3
    /\ Qualifying # QualifyingStrict
    /\ MatchResult[3] # None
    /\ \E i \in Qualifying : i > 1 /\ 1 \in Qualifying
                             /\ MatchResult[3] = Some(trees[i].tree_uid)

\* the identifiers of the candidates the loop collects
CandidateUids ==
    LET cands == candidates(measurement, trees, cfg)
    IN  {cands[k][1] : k \in 1..Len(cands)}

\* C24: with species_must_match and a measurement that has a species code,
\* the tree returned as the match or as the candidate has the species code of
\* the measurement, and a tree whose species code differs from the
\* measurement's, or is missing, is never a candidate.
C24_SpeciesMustMatch ==
    (op = "match" /\ cfg.species_must_match /\ measurement.species_code # None) =>
        \A i \in 1..Len(trees) :
            /\ (MatchResult[1] = Some(trees[i].tree_uid) \/ MatchResult[3] = Some(trees[i].tree_uid))
                   => trees[i].species_code = measurement.species_code
            /\ trees[i].species_code # measurement.species_code
                   => trees[i].tree_uid \notin CandidateUids

\* the identifiers of the records of the tree list
ListUids == {trees[i].tree_uid : i \in 1..Len(trees)}

\* the pair assign_measurement returned
ReturnedMeasurement == Get(returned)[1]

ReturnedTree == Get(returned)[2]

\* C25: after assign_measurement the returned temporary tree is None iff
\* exactly one tree qualified, and then the measurement is 'auto' with that
\* tree and no candidate; otherwise the returned tree is a new record with
\* is_temporary = 1, the measurement points to it, is 'unmatched' and carries
\* the best ambiguous candidate or None. tree_uid is always set and the three
\* fields no longer hold their previous values.
C25_AssignOutcome ==
    (op = "match" /\ pc = "done") =>
        /\ ReturnedTree = temp_tree /\ ReturnedMeasurement = measurement
        /\ (ReturnedTree = None) <=> (Cardinality(Qualifying) = 1)
        /\ ReturnedTree = None =>
               /\ measurement.match_status = "auto"
               /\ \A i \in Qualifying : measurement.tree_uid = Some(trees[i].tree_uid)
               /\ measurement.candidate_tree_uid = None
        /\ ReturnedTree # None =>
               /\ Get(ReturnedTree).is_temporary = 1
               /\ Get(ReturnedTree).tree_uid \notin ListUids
               /\ measurement.tree_uid = Some(Get(ReturnedTree).tree_uid)
               /\ measurement.match_status = "unmatched"
               /\ measurement.candidate_tree_uid = MatchResult[3]
               /\ (measurement.candidate_tree_uid = None) <=> (Qualifying = {})
        /\ measurement.tree_uid # None
        /\ measurement.tree_uid # Some("old")
        /\ measurement.match_status # "manual"
        /\ measurement.candidate_tree_uid # Some("old")

\* an ambiguous measurement that got a temporary tree and a candidate
C25_Witness ==
    /\ op = "match" /\ pc = "done"
    /\ temp_tree # None
    /\ measurement.candidate_tree_uid # None
    /\ measurement.tree_uid = Some(Get(temp_tree).tree_uid)

\* a call has raised: the exception has left the top-level operation
Raised == pc = "failed"

\* every file of directory d is still in d2, with its points kept in front
FilesKept(d, d2) ==
    /\ DOMAIN d \subseteq DOMAIN d2
    /\ \A n \in DOMAIN d : IsPrefix(d[n].points, d2[n].points)

\* the step in which a call raises inside a chunk loop: no file is removed or cut, a merge leaves
\* its output as the chunks before left it, an import adds at most the
\* writes of the failing chunk that precede the failing one
C26_FailingStep ==
    (pc \in {"chunks", "append"} /\ Raised') =>
        /\ outcome' \notin {None, <<"ok">>}
        /\ returned' = None
        /\ FilesKept(tiles, tiles') /\ FilesKept(merged, merged')
        /\ srcfiles' = srcfiles
        /\ op = "merge" =>
              /\ tiles' = tiles /\ merged' = merged
              /\ merged_path \in DOMAIN merged'
              /\ merged'[merged_path].points = SubSeq(ExpectedMerge, 1, point_count)
        /\ op = "import" =>
              \A n \in DOMAIN tiles :
                    \A k \in (Len(tiles[n].points) + 1)..Len(tiles'[n].points) :
                        \E j \in (pos + 1)..MinOf(pos + cfg.chunk_size, Len(Get(reader).points)) :
                            tiles'[n].points[k] = Get(reader).points[j]

\* once a call has raised nothing more happens in it
C26_AfterFailure == Raised => UNCHANGED vars

\* C26: a failure is neither retried nor cleaned up. The step in which a
\* chunk read or write raises leaves every file in place
\* with the points written so far, returns nothing, and no step follows it:
\* no further chunk is read or written and no file is deleted.
C26_NoRetryNoCleanup == [][C26_FailingStep /\ C26_AfterFailure]_vars

\* a merge that raised between two chunks, its output holding a part of what
\* it was to hold
C26_Witness ==
    /\ op = "merge" /\ Raised
    /\ outcome = <<"IOError">>
    /\ point_count > 0
    /\ point_count < Len(ExpectedMerge)
    /\ Len(merged[merged_path].points) = point_count

\* the records of the list that are not temporary, in list order
PermanentTrees == SelectSeq(trees, LAMBDA t : t.is_temporary = 0)

\* the identifiers of the temporary records of the list
TemporaryUids == {trees[i].tree_uid : i \in {j \in 1..Len(trees) : trees[j].is_temporary # 0}}

\* C27: over calls of assign_measurement in which the caller adds every
\* returned temporary tree to the list, a measurement never gets a temporary
\* tree of the list as tree_uid or candidate_tree_uid, the result of the
\* matching is the one computed from the permanent trees alone, and a
\* measurement that is not assigned automatically gets a temporary tree whose
\* identifier no record of the list carries.
C27_TemporaryNeverTarget ==
    op = "match" =>
        /\ MatchResult = match_measurement_to_tree(measurement, PermanentTrees, cfg)
        /\ \A u \in TemporaryUids : MatchResult[1] # Some(u) /\ MatchResult[3] # Some(u)
        /\ pc = "done" =>
              /\ \A u \in TemporaryUids :
                    measurement.tree_uid # Some(u) /\ measurement.candidate_tree_uid # Some(u)
              /\ measurement.match_status = "unmatched" =>
                    /\ temp_tree # None
                    /\ Get(temp_tree).tree_uid \notin ListUids
                    /\ measurement.tree_uid = Some(Get(temp_tree).tree_uid)

\* the second call for a measurement whose first temporary tree is in the
\* list, within the tolerances of the measurement it was made from
C27_Witness ==
    /\ op = "match" /\ pc = "done" /\ runs = 2
    /\ temp_tree # None
    /\ measurement.dbh_cm # None /\ measurement.height_m # None
    /\ \E i \in 1..Len(trees) :
          /\ trees[i].tree_uid \in TempUidPool
          /\ trees[i].is_temporary = 1
          /\ trees[i].dbh_cm = measurement.dbh_cm
          /\ trees[i].height_m = measurement.height_m
          /\ Get(temp_tree).tree_uid # trees[i].tree_uid

\* the inputs of the list are pairwise distinct paths
DistinctInputs ==
    \A j, k \in 1..Len(input_paths) : j # k => input_paths[j] # input_paths[k]

\* C28: in one import call over pairwise distinct input paths the derived
\* tile identifiers are pairwise distinct, and so are the asset identities
\* of the returned records; no destination file holds another input's tile.
C28_TileIdsUnique ==
    (op = "import" /\ DistinctInputs) =>
        /\ \A j, k \in 1..Len(input_paths) : j # k => TileIdOf(j) # TileIdOf(k)
        /\ returned # None =>
              \A a, b \in 1..Len(Get(returned)) :
                  a # b => Get(returned)[a].asset_uid # Get(returned)[b].asset_uid

(***************************************************************************)
(* What the chunk loop yields when the whole file arrives as one chunk:    *)
(* the reference the result of every chunk size is compared with.          *)
(***************************************************************************)
OneChunkRole(points, mask) ==
    IF MaskAny(mask)
    THEN [points |-> Select(points, mask),
          count |-> MaskSum(mask),
          bbox |-> update_bbox(None, Select(points, mask))]
    ELSE [points |-> <<>>, count |-> 0, bbox |-> None]

OneChunkImport(f) ==
    LET mr == mask_residual(f.points, f.has_inst, cfg)
        none == [i \in 1..Len(f.points) |-> FALSE]
    IN  [tree |-> OneChunkRole(f.points, mask_tree(f.points, f.has_inst, cfg)),
         ground |-> OneChunkRole(f.points, mask_ground(f.points, cfg)),
         residual |-> OneChunkRole(f.points,
                                   IF cfg.include_residual /\ mr # None THEN Get(mr) ELSE none)]

OneChunkMerge ==
    LET all == PointsOf(tiles, MergePlan(tiles, cfg))
    IN  [points |-> all, count |-> Len(all),
         bbox |-> IF all = <<>> THEN None ELSE merge_update_bbox(None, all)]

\* C29: whatever the chunk size, a finished tile import has per role the
\* point sequence, the count and the bounding box that a single chunk holding
\* the whole source gives, and a finished merge has the point sequence, the
\* count and the bounding box of a single chunk holding all selected files.
C29_ChunkSizeIndependent ==
    /\ TileEnded =>
          LET ref == OneChunkImport(EndedSource)
          IN  /\ Written(tiles, tree_pack_path(tile_id)) = ref.tree.points
              /\ Written(tiles, ground_only_path(tile_id)) = ref.ground.points
              /\ Written(tiles, residual_path(tile_id)) = ref.residual.points
              /\ counts = [tree |-> ref.tree.count, ground |-> ref.ground.count,
                           residual |-> ref.residual.count]
              /\ bboxes = [tree |-> ref.tree.bbox, ground |-> ref.ground.bbox,
                           residual |-> ref.residual.bbox]
    /\ (op = "merge" /\ pc = "done") =>
          /\ Written(merged, merged_path) = OneChunkMerge.points
          /\ point_count = OneChunkMerge.count
          /\ bboxes = OneChunkMerge.bbox

\* the ten-point tile imported two points at a time, its tree points coming
\* from more than one chunk
C29_Witness ==
    /\ TileEnded
    /\ cfg.chunk_size = 2
    /\ EndedSource.points = ScenarioATile
    /\ counts.tree >= 3
    /\ counts.ground >= 3

\* a repeated merge has returned
RepeatedMergeDone == op = "merge" /\ pc = "done" /\ runs >= 1

\* C30: every merge call lists tiles/ anew and no merge output is among its
\* inputs. A finished merge holds the files of tiles/ as listed when it was
\* called, and nothing else; the merged file is in merged/ and no call adds
\* a file to tiles/. Repeated over an unchanged tiles/ the merge gives the
\* same point sequence, count and record; a tile file added in between is
\* part of the next merge.
C30_InputsRediscovered ==
    /\ op = "merge" => DOMAIN tiles = DOMAIN tiles_at_call
    /\ (op = "merge" /\ pc = "done") =>
          /\ tiles = tiles_at_call
          /\ merged_path \in DOMAIN merged
          /\ merged_path \notin DOMAIN tiles
          /\ merged[merged_path].points = ExpectedMerge
          /\ Get(returned)[1].point_count = Len(ExpectedMerge)
    /\ RepeatedMergeDone =>
          /\ tiles = Get(first_run).tiles =>
                /\ merged[merged_path].points = Get(first_run).points
                /\ returned = Get(first_run).returned
          /\ (NameTreeAA \in DOMAIN tiles /\ NameTreeAA \notin DOMAIN Get(first_run).tiles) =>
                /\ merged[merged_path].points
                      = AddedTile.points \o Get(first_run).points
                /\ Get(returned)[1].point_count
                      = Get(Get(first_run).returned)[1].point_count + Len(AddedTile.points)

\* a second merge over a tiles/ directory that got a new tile file after a
\* first merge that wrote points
C30_Witness ==
    /\ RepeatedMergeDone
    /\ NameTreeAA \in DOMAIN tiles
    /\ NameTreeAA \notin DOMAIN Get(first_run).tiles
    /\ Len(Get(first_run).points) >= 2
    /\ Len(merged[merged_path].points) = Len(Get(first_run).points) + 1

====
